---- MODULE Spec2Model ----
(***************************************************************************)
(* Model of the audio queue and stream controller of pylive               *)
(* (src/src/server.py, class AudioQueueManager and class EventManager)    *)
(* and of the audio listener generator (src/src/routes/root.py).          *)
(*                                                                         *)
(* The specifications share the variables:                                 *)
(*   SpecHistory  _add_to_history applied to a sequence of started tracks  *)
(*   Spec         add workers, scheduler (_handle_queue), writer           *)
(*                (_write_to_ffmpeg), skip_track and shutdown              *)
(*   SpecStream   splicer (_read_ogg_stream), audio listeners              *)
(*                (get_stream, generate_audio_stream) and shutdown         *)
(*   SpecEvents   EventManager: add_event, _manage_events, watch           *)
(*   SpecBacklog  scheduler, writer, skip_track and shutdown, started      *)
(*                with tracks waiting in the user queue                    *)
(*   SpecPage     the queue endpoints (get_queue_info) beside the          *)
(*                scheduler                                                *)
(* The scheduler side and the stream side share only the stopped flag and  *)
(* the main mixer, whose output pages are an input of the model.           *)
(***************************************************************************)
EXTENDS Integers, Sequences, FiniteSets, TLC

\* ---------------------------------------------------------------- bounds
MaxId == 2            \* track ids are 1..MaxId
MaxPlaysH == 52       \* plays applied in SpecHistory
MaxAdds == 2          \* add_track calls in Spec
MaxRefills == 1       \* non-empty related-track results in Spec
MaxRelatedLen == 2    \* length of a related-track result
MaxPages == 5         \* pages read from the mixer output in SpecStream
MaxYields == 3        \* chunks yielded per listener in SpecStream
NumCallers == 2       \* concurrent callers of shutdown()
MaxEvents == 3        \* add_event calls in SpecEvents
NumSubs == 1          \* watch() generators in SpecEvents
MaxBacklog == 6       \* tracks waiting in the user queue in SpecBacklog
MaxQueueLen == 11     \* tracks in the user queue in SpecPage
MaxPageIndex == 3     \* page indexes requested in SpecPage (from -2)

\* ------------------------------------------------------ program constants
HistoryMaxSize == 50  \* Queue(maxsize=50)
BosFlag == 2          \* first_page.flag != 2
LacingMax == 255      \* a segment of 255 continues in the next segment
MaxError == 5         \* max_error = 5
SubQueueMaxSize == 0  \* event_queue: Queue[str] = Queue(): no maxsize
ItemsPerPage == 5     \* items_per_page = 5

Min(a, b) == IF a < b THEN a ELSE b

\* MISSING = MISSING_TYPE(): the instance of server.py and the instance of
\* routes/root.py.  MissingValueType defines no __eq__: two instances are
\* equal only when they are the same object.
MISSING == "MISSING"
RootMISSING == "MISSING@routes.root"

None == -1            \* Python None for now_playing / next_track
NoPage == [flag |-> -1, header |-> <<>>, segtable |-> <<>>, data |-> <<>>]

\* an entry of a subscriber FIFO: the text built by _manage_events
\* ("event: <kind>\ndata: <json>\n\n") or a bare string
NoFrame == [text |-> "none", kind |-> "none", data |-> None]

IDs == 1..MaxId
\* Listeners write no shared state: the behaviours of one listener are the
\* same whatever the number of other listeners.
Listeners == {1}
Callers == 1..NumCallers
Workers == 1..MaxAdds
Subs == 1..NumSubs

VARIABLES
  \* AudioQueueManager fields
  stopped, shutdown_lock, user_queue, auto_queue, track_history, skip_event,
  audio_buffer_event, audio_header_event, now_playing, header_data,
  buffer_data, next_track_signal, ffmpeg_process, track_processes,
  queue_lock,
  \* EventManager fields
  em_shutdown_requested, event_queue,
  \* _handle_queue (scheduler) and _write_to_ffmpeg (writer) threads
  sched_pc, next_track, error_count, track_queue, writer_pc, writer_track,
  \* add_track workers and shutdown callers
  add_pc, add_url, sd_pc,
  \* _read_ogg_stream (splicer) thread
  reader_pc, reader_alive, pages_read, first_page, second_page, page,
  \* generate_audio_stream listeners
  gas_pc, yields, wfh_result, wfh_pre, gas_waits, gas_missed,
  \* history of the run
  started, pre_head, sd_runs, sd_noops, header_published, pub_count,
  refills,
  \* the last per-track spawn raised and the scheduler has not resumed since
  spawn_failed,
  \* per-track transcoder processes that run
  track_alive,
  \* get_queue_info requests
  pg_pc, pg_index, pg_end, pg_first, pg_snapshot, pg_result,
  \* EventManager: subscriber set, _manage_events thread, watch() generators
  user_list, sub_fifo, sub_pc, sub_yields, sub_end, disp_pc, disp_frame,
  disp_targets, ev_count, subs_at_shutdown,
  \* the subscriber FIFOs as they were when shutdown() was called
  pending_at_shutdown

qvars == <<user_queue, auto_queue, track_history, skip_event, now_playing,
           next_track_signal, track_processes, event_queue, sched_pc,
           next_track, error_count, track_queue, writer_pc, writer_track,
           add_pc, add_url, started, pre_head, refills, queue_lock,
           track_alive, spawn_failed>>
svars == <<audio_buffer_event, audio_header_event, header_data, buffer_data,
           reader_pc, reader_alive, pages_read, first_page, second_page, page,
           gas_pc, yields, wfh_result, wfh_pre, gas_waits,
           gas_missed, header_published, pub_count>>
dvars == <<stopped, shutdown_lock, ffmpeg_process, em_shutdown_requested,
           sd_pc, sd_runs, sd_noops>>
evars == <<user_list, sub_fifo, sub_pc, sub_yields, sub_end, disp_pc,
           disp_frame, disp_targets, ev_count, subs_at_shutdown,
                 pending_at_shutdown>>
pvars == <<pg_pc, pg_index, pg_end, pg_first, pg_snapshot, pg_result>>
vars == <<qvars, svars, dvars, evars, pvars>>

\* ------------------------------------------------------------- Ogg pages
OggS == <<79, 103, 103, 83>>

\* A page: header (version, header-type flag, page sequence number; the
\* other header fields are left out), segment table and data.
MkPage(flag, seq, segtable, data) ==
  [flag |-> flag, header |-> <<0, flag, seq>>, segtable |-> segtable,
   data |-> data]

BosPage == MkPage(BosFlag, 0, <<2>>, <<7, 7>>)
TagsPage == MkPage(0, 1, <<1>>, <<8>>)
DataPage(n) ==
  IF n % 2 = 1 THEN MkPage(0, n + 1, <<1, 2>>, <<n, 9, 9>>)
               ELSE MkPage(1, n + 1, <<2>>, <<n, 9>>)

\* The pages the mixer output can hold at position n (1-based).
MixerPage(n) ==
  IF n = 1 THEN {BosPage, DataPage(1)}
  ELSE IF n = 2 THEN {TagsPage}
  ELSE {DataPage(n - 2)}

\* OggPage.iter_packets: split data at every segment-table entry below 255.
RECURSIVE IterPackets(_, _, _)
IterPackets(segtable, data, packetlen) ==
  IF segtable = <<>>
    THEN IF packetlen > 0 THEN <<data>> ELSE <<>>
    ELSE IF Head(segtable) = LacingMax
      THEN IterPackets(Tail(segtable), data, packetlen + LacingMax)
      ELSE LET n == packetlen + Head(segtable)
           IN  <<SubSeq(data, 1, n)>> \o
               IterPackets(Tail(segtable), SubSeq(data, n + 1, Len(data)), 0)

RECURSIVE Join(_)
Join(ss) == IF ss = <<>> THEN <<>> ELSE Head(ss) \o Join(Tail(ss))

\* header1 / header2: b"OggS" + header + segtable + data
PageBytes(p) == OggS \o p.header \o p.segtable \o p.data

\* page_header + page_payload of a data page
Frame(p) == OggS \o p.header \o p.segtable \o Join(IterPackets(p.segtable, p.data, 0))

\* the header built from the first page alone
HeaderOfFirstOnly(p1, p2) == OggS \o p1.header \o p1.segtable \o p1.data

\* self._header_data = header1 + header2
HeaderOf(p1, p2) == PageBytes(p1) \o PageBytes(p2)

\* ------------------------------------------------------ facade accessors
\* is_alive() without the stopped test
IsAliveNoStopped == reader_alive

IsAlive == reader_alive /\ ~stopped

\* buffer never raising
BufferNeverRaises == FALSE

\* property buffer: raises InterruptedError when this holds
BufferRaises == (buffer_data = <<>> /\ IsAlive) \/ stopped

\* wait_for_header testing the header bytes only
HeaderInterruptedDataOnly == header_data = <<>>

\* wait_for_header after the event wait: raises InterruptedError
HeaderInterrupted == header_data = <<>> \/ ~IsAlive \/ stopped

\* ------------------------------------------------------------- history
\* _add_to_history without the eviction: put_nowait fails on a full queue
AddToHistoryNoEvict(h, id) ==
  IF Len(h) < HistoryMaxSize THEN Append(h, id) ELSE h

\* _add_to_history: drop the oldest id when full, then append
AddToHistory(h, id) ==
  LET h1 == IF Len(h) >= HistoryMaxSize THEN Tail(h) ELSE h
  IN  IF Len(h1) < HistoryMaxSize THEN Append(h1, id) ELSE h1

HistoryIds(h) == {h[i] : i \in 1..Len(h)}

\* ------------------------------------------------------------------ Init
QInit ==
  /\ user_queue = <<>> /\ auto_queue = <<>> /\ track_history = <<>>
  /\ skip_event = FALSE /\ now_playing = None /\ next_track_signal = FALSE
  /\ track_processes = {} /\ event_queue = <<>>
  /\ sched_pc = "clear" /\ next_track = None /\ error_count = 0
  /\ track_queue = <<>> /\ writer_pc = "get" /\ writer_track = None
  /\ add_pc = [w \in Workers |-> "idle"] /\ add_url = [w \in Workers |-> None]
  /\ started = <<>> /\ pre_head = None
  /\ refills = 0
  /\ queue_lock = "free" /\ track_alive = {} /\ spawn_failed = FALSE

SInit ==
  /\ audio_buffer_event = FALSE /\ audio_header_event = FALSE
  /\ header_data = <<>> /\ buffer_data = <<>>
  /\ reader_pc = "start" /\ reader_alive = TRUE /\ pages_read = 0
  /\ first_page = NoPage /\ second_page = NoPage /\ page = NoPage
  /\ gas_pc = [l \in Listeners |-> "idle"]
  /\ yields = [l \in Listeners |-> <<>>]
  /\ wfh_result = [l \in Listeners |-> "none"]
  /\ wfh_pre = [l \in Listeners |-> "none"]
  /\ gas_waits = [l \in Listeners |-> 0]
  /\ gas_missed = [l \in Listeners |-> FALSE]
  /\ header_published = FALSE /\ pub_count = 0

\* __init__: the main mixer is spawned
DInit ==
  /\ stopped = FALSE /\ shutdown_lock = 0
  /\ ffmpeg_process = "running"
  /\ em_shutdown_requested = FALSE
  /\ sd_pc = [c \in Callers |-> "idle"] /\ sd_runs = 0 /\ sd_noops = FALSE

\* EventManager.__init__: no subscriber, the dispatcher thread is started
EInit ==
  /\ user_list = {}
  /\ sub_fifo = [s \in Subs |-> <<>>]
  /\ sub_pc = [s \in Subs |-> "idle"]
  /\ sub_yields = [s \in Subs |-> <<>>]
  /\ sub_end = [s \in Subs |-> "none"]
  /\ disp_pc = "loop" /\ disp_frame = NoFrame /\ disp_targets = {}
  /\ ev_count = 0 /\ subs_at_shutdown = {}
  /\ pending_at_shutdown = [s \in Subs |-> <<>>]

\* no get_queue_info request is being served
PInit ==
  /\ pg_pc = "idle" /\ pg_index = 0 /\ pg_end = 0
  /\ pg_first = <<>> /\ pg_snapshot = <<>> /\ pg_result = <<>>

\* __init__ returns: the threads are started
Constructed == QInit /\ SInit /\ DInit /\ EInit /\ PInit

\* __init__ when _create_main_ffmpeg_process raises: _ffmpeg_process still
\* holds MISSING and the handler evaluates isinstance(MISSING, Popen), which
\* reads MISSING.__class__ through MissingValueType.__getattribute__, whose
\* body reads self.__class__ again: RecursionError leaves __init__ before
\* the scheduler and splicer threads are created.  The EventManager was
\* built before (its dispatcher thread runs, with nobody to feed it).
ConstructionFailed ==
  /\ ffmpeg_process = MISSING
  /\ sched_pc = "done" /\ writer_pc = "done"
  /\ reader_pc = "done" /\ reader_alive = FALSE
  /\ user_queue = <<>> /\ auto_queue = <<>> /\ track_history = <<>>
  /\ skip_event = FALSE /\ now_playing = None /\ next_track_signal = FALSE
  /\ track_processes = {} /\ event_queue = <<>>
  /\ next_track = None /\ error_count = 0
  /\ track_queue = <<>> /\ writer_track = None
  /\ add_pc = [w \in Workers |-> "idle"] /\ add_url = [w \in Workers |-> None]
  /\ started = <<>> /\ pre_head = None
  /\ refills = 0
  /\ queue_lock = "free" /\ track_alive = {} /\ spawn_failed = FALSE
  /\ audio_buffer_event = FALSE /\ audio_header_event = FALSE
  /\ header_data = <<>> /\ buffer_data = <<>>
  /\ pages_read = 0
  /\ first_page = NoPage /\ second_page = NoPage /\ page = NoPage
  /\ gas_pc = [l \in Listeners |-> "idle"]
  /\ yields = [l \in Listeners |-> <<>>]
  /\ wfh_result = [l \in Listeners |-> "none"]
  /\ wfh_pre = [l \in Listeners |-> "none"]
  /\ gas_waits = [l \in Listeners |-> 0]
  /\ gas_missed = [l \in Listeners |-> FALSE]
  /\ header_published = FALSE /\ pub_count = 0
  /\ stopped = FALSE /\ shutdown_lock = 0
  /\ em_shutdown_requested = FALSE
  /\ sd_pc = [c \in Callers |-> "idle"] /\ sd_runs = 0 /\ sd_noops = FALSE
  /\ EInit /\ PInit

\* the module global of main.py and extensions.py: audio_manager =
\* AudioQueueManager(), or None when the constructor raised
Controller == 0        \* the AudioQueueManager object
audio_manager == IF ffmpeg_process = MISSING THEN None ELSE Controller

\* the test every endpoint starts with: if not audio_manager: 503
NoAudioManager == audio_manager = None

Init == Constructed \/ ConstructionFailed

\* Event.set() notifies every thread blocked in wait(): it returns even when
\* the flag is cleared again before it runs.  A thread that has not called
\* wait() yet is not notified.
NotifyAll(pcs) ==
  [l \in Listeners |-> IF pcs[l] = "blocked" THEN "woken" ELSE pcs[l]]

\* ------------------------------------------- per-track process cleanup
\* the process is terminated and left in the registry
CleanupNoRemove(p) ==
  /\ track_alive' = track_alive \ {p}
  /\ UNCHANGED track_processes

\* _cleanup_track_process: terminate (kill after the wait) a process that
\* still runs; remove it from the registry when it is there
CleanupTrackProcess(p) ==
  /\ track_alive' = track_alive \ {p}
  /\ track_processes' = track_processes \ {p}

\* for process in self._track_processes[:]: self._cleanup_track_process(process)
SweepTrackProcesses ==
  /\ track_alive' = track_alive \ track_processes
  /\ track_processes' = {}

\* -------------------------------------------------------------- shutdown
\* shutdown without the stopped test
ShutdownNeverDone == FALSE

\* if self._stopped: return
ShutdownAlreadyDone == stopped

\* with self._shutdown_lock: if self._stopped: return
ShutdownEnter(c) ==
  /\ ~NoAudioManager
  /\ sd_pc[c] = "idle"
  /\ shutdown_lock = 0
  /\ IF ShutdownAlreadyDone
       THEN /\ sd_noops' = TRUE
            /\ UNCHANGED <<sd_pc, shutdown_lock>>
       ELSE /\ sd_pc' = [sd_pc EXCEPT ![c] = "mark"]
            /\ shutdown_lock' = c
            /\ UNCHANGED sd_noops
  /\ UNCHANGED <<qvars, svars, stopped, ffmpeg_process, em_shutdown_requested,
                 sd_runs, evars, pvars>>

\* EventManager.shutdown: flag, sentinel on the shared queue
EmShutdown ==
  /\ em_shutdown_requested' = TRUE
  /\ event_queue' = Append(event_queue, <<"shutdown", None>>)

\* EventManager.shutdown, last statement: self._user_list.clear()
EmShutdownClear == user_list' = {}

\* self._stopped = True; self._skip_event.set(); self._event_manager.shutdown()
ShutdownMark(c) ==
  /\ sd_pc[c] = "mark"
  /\ stopped' = TRUE
  /\ skip_event' = TRUE
  /\ EmShutdown
  /\ subs_at_shutdown' = user_list
  /\ pending_at_shutdown' = sub_fifo
  /\ sd_runs' = sd_runs + 1
  /\ sd_pc' = [sd_pc EXCEPT ![c] = "sweep"]
  /\ UNCHANGED <<user_queue, queue_lock, auto_queue, track_history, now_playing,
                 next_track_signal, track_processes, track_alive, sched_pc, next_track,
                 error_count, track_queue, writer_pc, writer_track, spawn_failed, add_pc,
                 add_url, started, pre_head, refills,
                 svars, shutdown_lock, ffmpeg_process, sd_noops,
                 user_list, sub_fifo, sub_pc, sub_yields, sub_end, disp_pc,
                 disp_frame, disp_targets, ev_count, pvars>>

\* the subscriber set is cleared as EventManager.shutdown returns; sweep of
\* the per-track processes, termination of the main mixer
ShutdownSweep(c) ==
  /\ sd_pc[c] = "sweep"
  /\ EmShutdownClear
  /\ SweepTrackProcesses
  /\ ffmpeg_process' = IF ffmpeg_process = "running" THEN "terminated"
                                                      ELSE ffmpeg_process
  /\ sd_pc' = [sd_pc EXCEPT ![c] = "signal"]
  /\ UNCHANGED <<user_queue, queue_lock, auto_queue, track_history, skip_event,
                 now_playing, next_track_signal, event_queue, sched_pc,
                 next_track, error_count, track_queue, writer_pc, writer_track, spawn_failed,
                 add_pc, add_url, started, pre_head, refills, svars, stopped, shutdown_lock,
                 em_shutdown_requested, sd_runs, sd_noops,
                 sub_fifo, sub_pc, sub_yields, sub_end, disp_pc, disp_frame,
                 disp_targets, ev_count, subs_at_shutdown,
                 pending_at_shutdown, pvars>>

\* the three events are set, the lock is released
ShutdownSignal(c) ==
  /\ sd_pc[c] = "signal"
  /\ audio_buffer_event' = TRUE
  /\ audio_header_event' = TRUE
  /\ next_track_signal' = TRUE
  /\ gas_pc' = NotifyAll(gas_pc)
  /\ shutdown_lock' = 0
  /\ sd_pc' = [sd_pc EXCEPT ![c] = "idle"]
  /\ UNCHANGED <<user_queue, queue_lock, auto_queue, track_history, skip_event,
                 now_playing, track_processes, track_alive, event_queue, sched_pc,
                 next_track, error_count, track_queue, writer_pc, writer_track, spawn_failed,
                 add_pc, add_url, started, pre_head, refills, header_data, buffer_data, reader_pc, reader_alive,
                 pages_read, first_page, second_page, page, yields,
                 wfh_result, wfh_pre, gas_waits, gas_missed,
                 header_published, pub_count,
                 stopped, ffmpeg_process, em_shutdown_requested, sd_runs,
                 sd_noops, evars, pvars>>

ShutdownBy(c) ==
  \/ ShutdownEnter(c)
  \/ ShutdownMark(c)
  \/ ShutdownSweep(c)
  \/ ShutdownSignal(c)

Shutdown == \E c \in Callers : ShutdownBy(c)

\* ------------------------------------------------- splicer: _read_ogg_stream
ReaderUnch == <<audio_buffer_event, audio_header_event, header_data,
                buffer_data, pages_read, first_page, second_page, page,
                header_published, pub_count>>
GasGhost == <<gas_missed>>
GasVars == <<gas_pc, yields, wfh_result, wfh_pre, gas_waits, GasGhost>>

\* the thread function returns: Thread.is_alive() becomes false
ReaderExit ==
  /\ reader_pc' = "done"
  /\ reader_alive' = FALSE

\* if not self._ffmpeg_stdout: return
ReaderStart ==
  /\ reader_pc = "start"
  /\ IF ffmpeg_process = MISSING
       THEN ReaderExit
       ELSE reader_pc' = "first" /\ UNCHANGED reader_alive
  /\ UNCHANGED <<ReaderUnch, GasVars, qvars, dvars, evars, pvars>>

\* first_page = next(pages_iterator); a flag other than 2 is only logged
ReaderFirst ==
  /\ reader_pc = "first"
  /\ \E p \in MixerPage(1) : first_page' = p
  /\ pages_read' = 1
  /\ reader_pc' = "second"
  /\ UNCHANGED <<audio_buffer_event, audio_header_event, header_data,
                 buffer_data, second_page, page, header_published, pub_count,
                 reader_alive, GasVars, qvars, dvars, evars, pvars>>

\* second_page = next(pages_iterator); self._header_data = header1 + header2
ReaderSecond ==
  /\ reader_pc = "second"
  /\ \E p \in MixerPage(2) :
       /\ second_page' = p
       /\ header_data' = HeaderOf(first_page, p)
  /\ pages_read' = 2
  /\ reader_pc' = "hdr_set"
  /\ UNCHANGED <<audio_buffer_event, audio_header_event, buffer_data,
                 first_page, page, header_published, pub_count, reader_alive,
                 GasVars, qvars, dvars, evars, pvars>>

\* self._audio_header_event.set()
ReaderHeaderSet ==
  /\ reader_pc = "hdr_set"
  /\ audio_header_event' = TRUE
  /\ header_published' = TRUE
  /\ reader_pc' = "next"
  /\ UNCHANGED <<audio_buffer_event, header_data, buffer_data, pages_read,
                 first_page, second_page, page, pub_count, reader_alive,
                 GasVars, qvars, dvars, evars, pvars>>

\* for page in pages_iterator
ReaderNextPage ==
  /\ reader_pc = "next"
  /\ pages_read < MaxPages
  /\ \E p \in MixerPage(pages_read + 1) : page' = p
  /\ pages_read' = pages_read + 1
  /\ reader_pc' = "chk"
  /\ UNCHANGED <<audio_buffer_event, audio_header_event, header_data,
                 buffer_data, first_page, second_page, header_published,
                 pub_count, reader_alive, GasVars, qvars, dvars, evars, pvars>>

\* the mixer output ends or the read fails while the splicer waits for a page
ReaderStreamEnd ==
  /\ reader_pc \in {"first", "second", "next"}
  /\ ReaderExit
  /\ UNCHANGED <<ReaderUnch, GasVars, qvars, dvars, evars, pvars>>

\* if self._stopped: break
ReaderCheckStopped ==
  /\ reader_pc = "chk"
  /\ IF stopped
       THEN ReaderExit
       ELSE reader_pc' = "write" /\ UNCHANGED reader_alive
  /\ UNCHANGED <<ReaderUnch, GasVars, qvars, dvars, evars, pvars>>

\* self._buffer_data = page_header + page_payload
ReaderWrite ==
  /\ reader_pc = "write"
  /\ buffer_data' = Frame(page)
  /\ pub_count' = pub_count + 1
  /\ reader_pc' = "set"
  /\ UNCHANGED <<audio_buffer_event, audio_header_event, header_data,
                 pages_read, first_page, second_page, page, header_published,
                 reader_alive, GasVars, qvars, dvars, evars, pvars>>

\* an exception while the page is processed is logged, the loop continues
ReaderPageError ==
  /\ reader_pc = "write"
  /\ reader_pc' = "next"
  /\ UNCHANGED <<ReaderUnch, reader_alive, GasVars, qvars, dvars, evars, pvars>>

\* self._audio_buffer_event.set()
ReaderSet ==
  /\ reader_pc = "set"
  /\ audio_buffer_event' = TRUE
  /\ gas_pc' = NotifyAll(gas_pc)
  /\ gas_missed' = [l \in Listeners |->
                      gas_missed[l] \/
                        gas_pc[l] \in {"alive", "wait", "read", "woken"}]
  /\ reader_pc' = "clear"
  /\ UNCHANGED <<audio_header_event, header_data, buffer_data, pages_read,
                 first_page, second_page, page, header_published, pub_count,
                 reader_alive, yields, wfh_result, wfh_pre, gas_waits, qvars,
                 dvars, evars, pvars>>

\* self._audio_buffer_event.clear()
ReaderClear ==
  /\ reader_pc = "clear"
  /\ audio_buffer_event' = FALSE
  /\ reader_pc' = "next"
  /\ UNCHANGED <<audio_header_event, header_data, buffer_data, pages_read,
                 first_page, second_page, page, header_published, pub_count,
                 reader_alive, GasVars, qvars, dvars, evars, pvars>>

Reader ==
  \/ ReaderStart
  \/ ReaderFirst
  \/ ReaderSecond
  \/ ReaderHeaderSet
  \/ ReaderNextPage
  \/ ReaderStreamEnd
  \/ ReaderCheckStopped
  \/ ReaderWrite
  \/ ReaderPageError
  \/ ReaderSet
  \/ ReaderClear

\* ---------------------------------------- listener: generate_audio_stream
GasUnch == <<audio_buffer_event, audio_header_event, header_data, buffer_data,
             reader_pc, reader_alive, pages_read, first_page, second_page,
             page, header_published, pub_count>>

\* a yielded chunk, with the publication count and is_alive() at the yield
Chunk(src, data) ==
  [src |-> src, data |-> data, pub |-> pub_count, alive |-> IsAlive]

\* get_stream: audio_controller._ffmpeg_process == MISSING
StreamUnavailable == ffmpeg_process = RootMISSING

\* get_stream: the request is refused with 503 (no controller) or 404, or
\* the response is started with the generator, which calls wait_for_header()
GasStart(l) ==
  /\ gas_pc[l] = "idle"
  /\ gas_pc' = [gas_pc EXCEPT ![l] =
                  IF NoAudioManager \/ StreamUnavailable THEN "refused"
                                                         ELSE "wfh"]
  /\ wfh_pre' = [wfh_pre EXCEPT ![l] =
                   IF header_published THEN "published"
                   ELSE IF stopped THEN "shutdown"
                   ELSE IF ~reader_alive THEN "exited"
                   ELSE "alive"]
  /\ UNCHANGED <<yields, wfh_result, gas_waits, GasGhost, GasUnch, qvars,
                 dvars, evars, pvars>>

\* wait_for_header: the header event is not set within the timeout
WaitForHeaderTimeout(l) ==
  /\ gas_pc[l] = "wfh"
  /\ ~audio_header_event
  /\ wfh_result' = [wfh_result EXCEPT ![l] = "Timeout"]
  /\ gas_pc' = [gas_pc EXCEPT ![l] = "ended"]
  /\ UNCHANGED <<yields, wfh_pre, gas_waits, GasGhost, GasUnch, qvars,
                 dvars, evars, pvars>>

\* wait_for_header: the event is set; InterruptedError or the header
WaitForHeader(l) ==
  /\ gas_pc[l] = "wfh"
  /\ audio_header_event
  /\ IF HeaderInterrupted
       THEN /\ wfh_result' = [wfh_result EXCEPT ![l] = "Interrupted"]
            /\ gas_pc' = [gas_pc EXCEPT ![l] = "ended"]
            /\ UNCHANGED yields
       ELSE /\ wfh_result' = [wfh_result EXCEPT ![l] = "header"]
            /\ yields' = [yields EXCEPT ![l] =
                            Append(@, Chunk("header", header_data))]
            /\ gas_pc' = [gas_pc EXCEPT ![l] = "alive"]
  /\ UNCHANGED <<wfh_pre, gas_waits, GasGhost, GasUnch, qvars, dvars, evars, pvars>>

\* while audio_manager.is_alive()
GasCheckAlive(l) ==
  /\ gas_pc[l] = "alive"
  /\ gas_pc' = [gas_pc EXCEPT ![l] = IF IsAlive THEN "wait" ELSE "ended"]
  /\ UNCHANGED <<yields, wfh_result, wfh_pre, gas_waits, GasGhost, GasUnch,
                 qvars, dvars, evars, pvars>>

\* a chunk is recorded while fewer than MaxYields are
Record(ys, c) == IF Len(ys) < MaxYields THEN Append(ys, c) ELSE ys

\* audio_manager.event.wait() is called: it returns at once when the flag is
\* set, else the listener blocks
GasWaitCall(l) ==
  /\ gas_pc[l] = "wait"
  /\ IF audio_buffer_event
       THEN /\ gas_pc' = [gas_pc EXCEPT ![l] = "read"]
            /\ gas_waits' = [gas_waits EXCEPT ![l] =
                               IF Len(yields[l]) < MaxYields THEN @ + 1 ELSE @]
       ELSE /\ gas_pc' = [gas_pc EXCEPT ![l] = "blocked"]
            /\ UNCHANGED gas_waits
  /\ UNCHANGED <<yields, wfh_result, wfh_pre, GasGhost, GasUnch, qvars,
                 dvars, evars, pvars>>

\* audio_manager.event.wait() returns in a listener that was notified by a
\* set() while it was blocked
GasWait(l) ==
  /\ gas_pc[l] = "woken"
  /\ gas_waits' = [gas_waits EXCEPT ![l] =
                     IF Len(yields[l]) < MaxYields THEN @ + 1 ELSE @]
  /\ gas_pc' = [gas_pc EXCEPT ![l] = "read"]
  /\ UNCHANGED <<yields, wfh_result, wfh_pre, GasGhost, GasUnch, qvars,
                 dvars, evars, pvars>>

\* yield audio_manager.buffer
GasRead(l) ==
  /\ gas_pc[l] = "read"
  /\ IF BufferRaises
       THEN /\ gas_pc' = [gas_pc EXCEPT ![l] = "ended"]
            /\ UNCHANGED yields
       ELSE /\ yields' = [yields EXCEPT ![l] =
                            Record(@, Chunk("buffer", buffer_data))]
            /\ gas_pc' = [gas_pc EXCEPT ![l] = "alive"]
  /\ UNCHANGED <<wfh_result, wfh_pre, gas_waits, GasGhost, GasUnch, qvars,
                 dvars, evars, pvars>>

\* the steps of a started generator
GasRun(l) ==
  \/ WaitForHeaderTimeout(l)
  \/ WaitForHeader(l)
  \/ GasCheckAlive(l)
  \/ GasWaitCall(l)
  \/ GasWait(l)
  \/ GasRead(l)

Listener == \E l \in Listeners : GasStart(l) \/ GasRun(l)

NextStream == Reader \/ Listener \/ Shutdown
SpecStream == Init /\ [][NextStream]_vars

\* the splicer thread, every started generator and every caller of
\* shutdown() go on running
SpecStreamFair ==
  /\ SpecStream
  /\ WF_vars(Reader)
  /\ \A l \in Listeners : WF_vars(GasRun(l))
  /\ WF_vars(Shutdown)

\* the splicer thread and every started generator go on running; nothing
\* says that shutdown() is ever called
SpecStreamThreads ==
  /\ SpecStream
  /\ WF_vars(Reader)
  /\ \A l \in Listeners : WF_vars(GasRun(l))

\* ===================================================== scheduler side
SchedLocal == <<sched_pc, next_track, error_count>>
WriterLocal == <<writer_pc, writer_track, spawn_failed>>
AddLocal == <<add_pc, add_url>>

\* EventManager.add_event: dropped once shutdown was requested
AddEvent(kind, data) ==
  event_queue' = IF em_shutdown_requested THEN event_queue
                 ELSE Append(event_queue, <<kind, data>>)

\* the filter without the History test
FilterNoHistory(tracks, h) == SelectSeq(tracks, LAMBDA t : t # 0)

\* _filter_duplicate_tracks: keep the tracks with an id that is not in History
FilterDuplicateTracks(tracks, h) ==
  SelectSeq(tracks, LAMBDA t : t # 0 /\ t \notin HistoryIds(h))

\* results of the related-track lookup: lists of ids
RelatedLists ==
  UNION {[1..n -> IDs] : n \in 0..MaxRelatedLen}

\* --------------------------------------------- add_track and its worker
\* add_track starting a worker whatever the state
AddTrackAlways == TRUE

\* add_track: if not self._stopped
AddTrackAllowed == ~stopped

\* add_track: if not self._stopped: execute_in_thread(self._add_to_queue, url)
\* (the n-th call is served by worker n)
AddTrack(w) ==
  /\ ~NoAudioManager
  /\ add_pc[w] = "idle"
  /\ \A v \in Workers : v < w => add_pc[v] # "idle"
  /\ AddTrackAllowed
  /\ \E u \in IDs : add_url' = [add_url EXCEPT ![w] = u]
  /\ add_pc' = [add_pc EXCEPT ![w] = "start"]
  /\ UNCHANGED <<user_queue, queue_lock, auto_queue, track_history, skip_event,
                 now_playing, next_track_signal, track_processes, track_alive, event_queue,
                 SchedLocal, track_queue, WriterLocal, started, pre_head, refills, svars, dvars, evars, pvars>>

\* _add_to_queue: stopped check, then extract_video_info(url, process=False)
AddToQueueStart(w) ==
  /\ add_pc[w] = "start"
  /\ IF stopped
       THEN add_pc' = [add_pc EXCEPT ![w] = "done"]
       ELSE \E ok \in BOOLEAN :
              add_pc' = [add_pc EXCEPT ![w] = IF ok THEN "append" ELSE "done"]
  /\ UNCHANGED <<user_queue, queue_lock, auto_queue, track_history, skip_event,
                 now_playing, next_track_signal, track_processes, track_alive, event_queue,
                 SchedLocal, track_queue, WriterLocal, add_url, started,
                 pre_head, refills, svars, dvars, evars, pvars>>

\* with self._queue_lock: the lock is acquired
AddToQueueLock(w) ==
  /\ add_pc[w] = "append"
  /\ queue_lock = "free"
  /\ queue_lock' = "add"
  /\ add_pc' = [add_pc EXCEPT ![w] = "locked"]
  /\ UNCHANGED <<user_queue, auto_queue, track_history, skip_event,
                 now_playing, next_track_signal, track_processes, track_alive,
                 event_queue, SchedLocal, track_queue, WriterLocal, add_url,
                 started, pre_head, refills, svars, dvars, evars, pvars>>

\* self._user_queue.append(track_info); the with block is left
AddToQueueAppend(w) ==
  /\ add_pc[w] = "locked"
  /\ user_queue' = Append(user_queue, add_url[w])
  /\ queue_lock' = "free"
  /\ add_pc' = [add_pc EXCEPT ![w] = "event"]
  /\ UNCHANGED <<auto_queue, track_history, skip_event, now_playing,
                 next_track_signal, track_processes, track_alive, event_queue, SchedLocal,
                 track_queue, WriterLocal, add_url, started, pre_head,
                 refills, svars, dvars, evars, pvars>>

\* self._event_manager.add_event(EventManager.QUEUE_ADD, track_info)
AddToQueueEvent(w) ==
  /\ add_pc[w] = "event"
  /\ AddEvent("queueadd", add_url[w])
  /\ add_pc' = [add_pc EXCEPT ![w] = "done"]
  /\ UNCHANGED <<user_queue, queue_lock, auto_queue, track_history, skip_event,
                 now_playing, next_track_signal, track_processes, track_alive, SchedLocal,
                 track_queue, WriterLocal, add_url, started, pre_head,
                 refills, svars, dvars, evars, pvars>>

Add ==
  \E w \in Workers :
    \/ AddTrack(w)
    \/ AddToQueueStart(w)
    \/ AddToQueueLock(w)
    \/ AddToQueueAppend(w)
    \/ AddToQueueEvent(w)

\* --------------------------------------------------- skip_track
\* skip_track setting the flag whatever the state
SkipTrackAlways == TRUE

\* skip_track: if not self._stopped
SkipTrackAllowed == ~stopped

\* a skip_track that also puts the playing track back at the head of the
\* user queue
SkipTrackRequeue ==
  /\ ~NoAudioManager
  /\ SkipTrackAllowed
  /\ skip_event' = TRUE
  /\ user_queue' = IF now_playing # None /\ Len(user_queue) < MaxAdds
                     THEN <<now_playing>> \o user_queue
                     ELSE user_queue
  /\ UNCHANGED <<queue_lock, auto_queue, track_history, now_playing,
                 next_track_signal, track_processes, track_alive, event_queue, SchedLocal,
                 track_queue, WriterLocal, AddLocal, started, pre_head, refills, svars, dvars, evars, pvars>>

\* skip_track: self._skip_event.set()
SkipTrack ==
  /\ ~NoAudioManager
  /\ SkipTrackAllowed
  /\ skip_event' = TRUE
  /\ UNCHANGED <<user_queue, queue_lock, auto_queue, track_history, now_playing,
                 next_track_signal, track_processes, track_alive, event_queue, SchedLocal,
                 track_queue, WriterLocal, AddLocal, started, pre_head, refills, svars, dvars, evars, pvars>>

\* --------------------------------------------------- scheduler: _handle_queue
\* while not self._stopped: self._next_track_signal.clear()
SchedLoop ==
  /\ sched_pc = "clear"
  /\ IF stopped
       THEN sched_pc' = "done" /\ UNCHANGED next_track_signal
       ELSE sched_pc' = "gnt" /\ next_track_signal' = FALSE
  /\ UNCHANGED <<user_queue, queue_lock, auto_queue, track_history, skip_event,
                 now_playing, track_processes, track_alive, event_queue, next_track,
                 error_count, track_queue, WriterLocal, AddLocal, started,
                 pre_head, refills, svars, dvars, evars, pvars>>

\* get_next_track: if self._stopped: return None
GetNextTrackBegin ==
  /\ sched_pc = "gnt"
  /\ IF stopped
       THEN /\ next_track' = None
            /\ pre_head' = None
            /\ sched_pc' = "clear"
       ELSE /\ pre_head' = IF user_queue = <<>> THEN None ELSE Head(user_queue)
            /\ sched_pc' = "gnt_lock"
            /\ UNCHANGED next_track
  /\ UNCHANGED <<user_queue, queue_lock, auto_queue, track_history, skip_event,
                 now_playing, next_track_signal, track_processes, track_alive, event_queue,
                 error_count, track_queue, WriterLocal, AddLocal, started,
                 refills, svars, dvars, evars, pvars>>

\* the auto queue left as it is
KeepAutoQueue(q) == q

\* self._auto_queue.clear()
ClearAutoQueue(q) == <<>>

\* what get_next_track does once the user queue was found empty, up to the
\* call of _populate_auto_queue (which returns at once when stopped)
NeedsRefill == auto_queue = <<>> /\ now_playing # None /\ ~stopped

\* with self._queue_lock: the lock is acquired
GetNextTrackLock ==
  /\ sched_pc = "gnt_lock"
  /\ queue_lock = "free"
  /\ queue_lock' = "sched"
  /\ sched_pc' = "gnt_in"
  /\ UNCHANGED <<user_queue, auto_queue, track_history, skip_event,
                 now_playing, next_track_signal, track_processes, track_alive,
                 event_queue, next_track, error_count, track_queue,
                 WriterLocal, AddLocal, started, pre_head, refills, svars,
                 dvars, evars, pvars>>

\* inside the with block: a user track clears the auto queue, is popped and
\* returned; the lock is released as the block is left
GetNextTrackUser ==
  /\ sched_pc = "gnt_in"
  /\ queue_lock' = "free"
  /\ IF user_queue # <<>>
       THEN /\ auto_queue' = ClearAutoQueue(auto_queue)
            /\ next_track' = Head(user_queue)
            /\ user_queue' = Tail(user_queue)
            /\ sched_pc' = "resolve"
       ELSE /\ sched_pc' = "gnt_auto"
            /\ UNCHANGED <<user_queue, auto_queue, next_track>>
  /\ UNCHANGED <<track_history, skip_event, now_playing, next_track_signal,
                 track_processes, track_alive, event_queue, error_count,
                 track_queue, WriterLocal, AddLocal, started, pre_head,
                 refills, svars, dvars, evars, pvars>>

\* after the with block: the auto queue is refilled when empty, else popped.
\* In _handle_queue a None result restarts the loop.
GetNextTrackAuto ==
  /\ sched_pc = "gnt_auto"
  /\ IF NeedsRefill
       THEN /\ sched_pc' = "refill"
            /\ UNCHANGED <<auto_queue, next_track>>
       ELSE IF auto_queue # <<>>
         THEN /\ next_track' = Head(auto_queue)
              /\ auto_queue' = Tail(auto_queue)
              /\ sched_pc' = "resolve"
         ELSE /\ next_track' = None
              /\ sched_pc' = "clear"
              /\ UNCHANGED auto_queue
  /\ UNCHANGED <<user_queue, queue_lock, track_history, skip_event,
                 now_playing, next_track_signal, track_processes, track_alive,
                 event_queue, error_count, track_queue, WriterLocal, AddLocal,
                 started, pre_head, refills, svars, dvars, evars, pvars>>

\* _populate_auto_queue: related tracks, filtered against History, appended
PopulateAutoQueue ==
  /\ sched_pc = "refill"
  /\ \E related \in (IF refills < MaxRefills THEN RelatedLists ELSE {<<>>}) :
       /\ auto_queue' =
            auto_queue \o FilterDuplicateTracks(related, track_history)
       /\ refills' = IF related = <<>> THEN refills ELSE refills + 1
  /\ sched_pc' = "gnt_pop"
  /\ UNCHANGED <<user_queue, queue_lock, track_history, skip_event, now_playing,
                 next_track_signal, track_processes, track_alive, event_queue, next_track,
                 error_count, track_queue, WriterLocal, AddLocal, started,
                 pre_head, svars, dvars, evars, pvars>>

\* after the refill: if self._auto_queue: return self._auto_queue.pop(0);
\* else return None
GetNextTrackPop ==
  /\ sched_pc = "gnt_pop"
  /\ IF auto_queue # <<>>
       THEN /\ next_track' = Head(auto_queue)
            /\ auto_queue' = Tail(auto_queue)
            /\ sched_pc' = "resolve"
       ELSE /\ next_track' = None
            /\ sched_pc' = "clear"
            /\ UNCHANGED auto_queue
  /\ UNCHANGED <<user_queue, queue_lock, track_history, skip_event, now_playing,
                 next_track_signal, track_processes, track_alive, event_queue, error_count,
                 track_queue, WriterLocal, AddLocal, started, pre_head,
                 refills, svars, dvars, evars, pvars>>

\* extract_video_info succeeds; if self._stopped: break; the track is handed
\* to the writer
SchedResolved ==
  /\ sched_pc = "resolve"
  /\ pre_head' = None
  /\ IF stopped
       THEN sched_pc' = "done" /\ UNCHANGED <<now_playing, track_queue>>
       ELSE /\ now_playing' = next_track
            /\ track_queue' = Append(track_queue, next_track)
            /\ sched_pc' = "wait"
  /\ UNCHANGED <<user_queue, queue_lock, auto_queue, track_history, skip_event,
                 next_track_signal, track_processes, track_alive, event_queue, next_track,
                 error_count, WriterLocal, AddLocal, started,
                 refills, svars, dvars, evars, pvars>>

\* the failing iteration with now_playing assigned before the resolution
SchedResolveFailedAfterAssign ==
  /\ sched_pc = "resolve"
  /\ pre_head' = None
  /\ now_playing' = next_track
  /\ error_count' = error_count + 1
  /\ sched_pc' = IF error_count + 1 >= MaxError THEN "done" ELSE "clear"
  /\ UNCHANGED <<user_queue, queue_lock, auto_queue, track_history, skip_event,
                 next_track_signal, track_processes, track_alive, event_queue,
                 next_track, track_queue, WriterLocal, AddLocal, started,
                 refills, svars, dvars, evars, pvars>>

\* extract_video_info raises: the iteration fails
SchedResolveFailed ==
  /\ sched_pc = "resolve"
  /\ pre_head' = None
  /\ error_count' = error_count + 1
  /\ sched_pc' = IF error_count + 1 >= MaxError THEN "done" ELSE "clear"
  /\ UNCHANGED <<user_queue, queue_lock, auto_queue, track_history, skip_event,
                 now_playing, next_track_signal, track_processes, track_alive, event_queue,
                 next_track, track_queue, WriterLocal, AddLocal, started,
                 refills, svars, dvars, evars, pvars>>

\* the scheduler going on without the signal
SignalNotAwaited == TRUE

\* self._next_track_signal.wait() returns
SignalWaitReturns == next_track_signal

\* self._next_track_signal.wait(); error_count = 0
SchedWait ==
  /\ sched_pc = "wait"
  /\ SignalWaitReturns
  /\ error_count' = 0
  /\ spawn_failed' = FALSE
  /\ sched_pc' = "clear"
  /\ UNCHANGED <<user_queue, queue_lock, auto_queue, track_history,
                 skip_event, now_playing, next_track_signal, track_processes,
                 track_alive, event_queue, next_track, track_queue, writer_pc,
                 writer_track, AddLocal, started, pre_head, refills, svars,
                 dvars, evars, pvars>>

Scheduler ==
  \/ SchedLoop
  \/ GetNextTrackBegin
  \/ GetNextTrackLock
  \/ GetNextTrackUser
  \/ GetNextTrackAuto
  \/ PopulateAutoQueue
  \/ GetNextTrackPop
  \/ SchedResolved
  \/ SchedResolveFailed
  \/ SchedWait

\* --------------------------------------------------- writer: _write_to_ffmpeg
\* while not self._stopped: track = queue.get(timeout=1.0)
WriterGet ==
  /\ writer_pc = "get"
  /\ stopped \/ track_queue # <<>>
  /\ IF stopped
       THEN writer_pc' = "done" /\ UNCHANGED <<writer_track, track_queue>>
       ELSE /\ writer_track' = Head(track_queue)
            /\ track_queue' = Tail(track_queue)
            /\ writer_pc' = "chk"
  /\ UNCHANGED <<user_queue, queue_lock, auto_queue, track_history, skip_event,
                 now_playing, next_track_signal, track_processes, track_alive, event_queue,
                 SchedLocal, AddLocal, started, pre_head, refills, spawn_failed,
                 svars, dvars, evars, pvars>>

\* if self._stopped: break
WriterStopped ==
  /\ writer_pc = "chk"
  /\ writer_pc' = IF stopped THEN "done" ELSE "np"
  /\ UNCHANGED <<user_queue, queue_lock, auto_queue, track_history,
                 skip_event, now_playing, next_track_signal, track_processes,
                 track_alive, event_queue, SchedLocal, track_queue,
                 writer_track, spawn_failed, AddLocal, started, pre_head,
                 refills, svars, dvars, evars, pvars>>

\* self._event_manager.add_event(EventManager.NOW_PLAYING, track)
WriterNowPlaying ==
  /\ writer_pc = "np"
  /\ AddEvent("nowplaying", writer_track)
  /\ writer_pc' = "hist"
  /\ UNCHANGED <<user_queue, queue_lock, auto_queue, track_history, skip_event,
                 now_playing, next_track_signal, track_processes, track_alive, SchedLocal,
                 track_queue, writer_track, spawn_failed, AddLocal, started, pre_head, refills, svars, dvars, evars, pvars>>

\* the writer going on to the spawn without the History entry
WriterNoHistory ==
  /\ writer_pc = "hist"
  /\ writer_pc' = "spawn"
  /\ UNCHANGED <<user_queue, queue_lock, auto_queue, track_history,
                 skip_event, now_playing, next_track_signal, track_processes,
                 track_alive, event_queue, SchedLocal, track_queue,
                 writer_track, spawn_failed, AddLocal, started, pre_head,
                 refills, svars, dvars, evars, pvars>>

\* self._add_to_history(track_id)
WriterHistory ==
  /\ writer_pc = "hist"
  /\ track_history' = AddToHistory(track_history, writer_track)
  /\ started' = Append(started, writer_track)
  /\ writer_pc' = "spawn"
  /\ UNCHANGED <<user_queue, queue_lock, auto_queue, skip_event, now_playing,
                 next_track_signal, track_processes, track_alive, event_queue, SchedLocal,
                 track_queue, writer_track, spawn_failed, AddLocal, pre_head,
                 refills, svars, dvars, evars, pvars>>

\* track_process = subprocess.Popen(ffmpeg_cmd): the process of the n-th
\* started track runs, or the spawn raises and the handler of the writer
\* loop clears the skip flag and sets the signal
WriterSpawn ==
  /\ writer_pc = "spawn"
  /\ \E ok \in BOOLEAN :
       IF ok
         THEN /\ track_alive' = track_alive \cup {Len(started)}
              /\ spawn_failed' = FALSE
              /\ writer_pc' = "register"
         ELSE /\ spawn_failed' = TRUE
              /\ writer_pc' = "clr"
              /\ UNCHANGED track_alive
  /\ UNCHANGED <<user_queue, queue_lock, auto_queue, track_history,
                 skip_event, now_playing, next_track_signal, track_processes,
                 event_queue, SchedLocal, track_queue, writer_track, AddLocal,
                 started, pre_head, refills, svars, dvars, evars, pvars>>

\* self._track_processes.append(track_process)
WriterRegister ==
  /\ writer_pc = "register"
  /\ track_processes' = track_processes \cup {Len(started)}
  /\ writer_pc' = "pipe"
  /\ UNCHANGED <<user_queue, queue_lock, auto_queue, track_history,
                 skip_event, now_playing, next_track_signal, track_alive,
                 event_queue, SchedLocal, track_queue, writer_track,
                 spawn_failed, AddLocal, started, pre_head, refills, svars,
                 dvars, evars, pvars>>

\* the piping loop has ended: self._cleanup_track_process(track_process)
WriterPipeEnd ==
  /\ writer_pc = "pipe"
  /\ CleanupTrackProcess(Len(started))
  /\ writer_pc' = "clr"
  /\ UNCHANGED <<user_queue, queue_lock, auto_queue, track_history, skip_event,
                 now_playing, next_track_signal, event_queue, SchedLocal,
                 track_queue, writer_track, spawn_failed, AddLocal, started, pre_head, refills, svars, dvars, evars, pvars>>

\* the loop ends on the per-track process: it exited or its output ended
WriterPipeEof == WriterPipeEnd

\* the loop ends on the station: a chunk was read and the skip flag or the
\* stopped flag is set (while not self._stopped; ... or is_set() or _stopped)
WriterPipeBreak ==
  /\ skip_event \/ stopped
  /\ WriterPipeEnd

\* a chunk was read, neither flag is set and the mixer has a stdin: the chunk
\* is to be written (without a mixer the iteration ends here)
WriterPipeChunk ==
  /\ writer_pc = "pipe"
  /\ ~skip_event /\ ~stopped
  /\ ffmpeg_process # MISSING
  /\ writer_pc' = "write"
  /\ UNCHANGED <<user_queue, queue_lock, auto_queue, track_history,
                 skip_event, now_playing, next_track_signal, track_processes,
                 track_alive, event_queue, SchedLocal, track_queue,
                 writer_track, spawn_failed, AddLocal, started, pre_head,
                 refills, svars, dvars, evars, pvars>>

\* self._ffmpeg_stdin.write(audio_data); flush(): the chunk is written and
\* the loop goes on; or BrokenPipeError / OSError is caught, the loop is left
\* and the process cleaned up; or shutdown() has closed the stdin and the
\* write raises ValueError, which only the handler of the writer loop
\* catches: the cleanup is not run
WriterWrite ==
  /\ writer_pc = "write"
  /\ IF ffmpeg_process = "terminated"
       THEN /\ writer_pc' = "clr"
            /\ UNCHANGED <<track_processes, track_alive>>
       ELSE \E ok \in BOOLEAN :
              IF ok
                THEN /\ writer_pc' = "pipe"
                     /\ UNCHANGED <<track_processes, track_alive>>
                ELSE /\ CleanupTrackProcess(Len(started))
                     /\ writer_pc' = "clr"
  /\ UNCHANGED <<user_queue, queue_lock, auto_queue, track_history,
                 skip_event, now_playing, next_track_signal, event_queue,
                 SchedLocal, track_queue, writer_track, spawn_failed,
                 AddLocal, started, pre_head, refills, svars, dvars, evars,
                 pvars>>

\* self._skip_event.clear()
WriterClearSkip ==
  /\ writer_pc = "clr"
  /\ skip_event' = FALSE
  /\ writer_pc' = "sig"
  /\ UNCHANGED <<user_queue, queue_lock, auto_queue, track_history, now_playing,
                 next_track_signal, track_processes, track_alive, event_queue, SchedLocal,
                 track_queue, writer_track, spawn_failed, AddLocal, started, pre_head, refills, svars, dvars, evars, pvars>>

\* the writer going back to the track queue without setting the signal
WriterNoSignal ==
  /\ writer_pc = "sig"
  /\ writer_pc' = "get"
  /\ UNCHANGED <<user_queue, queue_lock, auto_queue, track_history,
                 skip_event, now_playing, next_track_signal, track_processes,
                 track_alive, event_queue, SchedLocal, track_queue,
                 writer_track, spawn_failed, AddLocal, started, pre_head,
                 refills, svars, dvars, evars, pvars>>

\* signal.set()
WriterSignal ==
  /\ writer_pc = "sig"
  /\ next_track_signal' = TRUE
  /\ writer_pc' = "get"
  /\ UNCHANGED <<user_queue, queue_lock, auto_queue, track_history, skip_event,
                 now_playing, track_processes, track_alive, event_queue, SchedLocal,
                 track_queue, writer_track, spawn_failed, AddLocal, started, pre_head, refills, svars, dvars, evars, pvars>>

Writer ==
  \/ WriterGet
  \/ WriterStopped
  \/ WriterNowPlaying
  \/ WriterHistory
  \/ WriterSpawn
  \/ WriterRegister
  \/ WriterPipeEof
  \/ WriterPipeBreak
  \/ WriterPipeChunk
  \/ WriterWrite
  \/ WriterClearSkip
  \/ WriterSignal

Next == Add \/ SkipTrack \/ Scheduler \/ Writer \/ Shutdown
Spec == Init /\ [][Next]_vars

\* ===================================================== history alone
\* A track starts playback: its id is appended by _add_to_history.  The ids
\* of successive plays are drawn in non-decreasing order.
StartPlayback ==
  /\ ~NoAudioManager
  /\ Len(started) < MaxPlaysH
  /\ \E id \in IDs :
       /\ id >= (IF started = <<>> THEN 0 ELSE started[Len(started)])
       /\ track_history' = AddToHistory(track_history, id)
       /\ started' = Append(started, id)
  /\ UNCHANGED <<user_queue, queue_lock, auto_queue, skip_event, now_playing,
                 next_track_signal, track_processes, track_alive, event_queue, SchedLocal,
                 track_queue, WriterLocal, AddLocal, pre_head,
                 refills, svars, dvars, evars, pvars>>

NextHistory == StartPlayback
SpecHistory == Init /\ [][NextHistory]_vars

\* ===================================================== event fan-out
QNoEvents == <<user_queue, auto_queue, track_history, skip_event, now_playing,
               next_track_signal, track_processes, sched_pc, next_track,
               error_count, track_queue, writer_pc, writer_track, add_pc,
               add_url, started, pre_head, refills, queue_lock, track_alive,
               spawn_failed>>
DispLocal == <<disp_pc, disp_frame, disp_targets>>
SubLocal == <<sub_pc, sub_yields, sub_end>>

\* f"event: {event_type}\ndata: {json.dumps(event_data)}\n\n"
Format(kind, data) == [text |-> "sse", kind |-> kind, data |-> data]

\* EventManager.SHUTDOWN, the bare string "shutdown"
ShutdownString == [text |-> "bare", kind |-> "shutdown", data |-> None]

\* Queue.full(): a maxsize of 0 or less means no limit
QueueFull(q) == SubQueueMaxSize > 0 /\ Len(q) >= SubQueueMaxSize

\* put_nowait at the head of the queue
PutNowaitFront(q, x) == IF QueueFull(q) THEN q ELSE <<x>> \o q

\* with contextlib.suppress(Full): user_queue.put_nowait(event_data)
PutNowait(q, x) == IF QueueFull(q) THEN q ELSE Append(q, x)

\* a caller of add_event (the add worker, then the writer): the n-th event
\* carries n
EmitEvent ==
  /\ ~NoAudioManager
  /\ ev_count < MaxEvents
  /\ AddEvent(IF ev_count % 2 = 0 THEN "queueadd" ELSE "nowplaying",
              ev_count + 1)
  /\ ev_count' = ev_count + 1
  /\ UNCHANGED <<QNoEvents, svars, dvars, pvars, user_list, sub_fifo, SubLocal,
                 DispLocal, subs_at_shutdown, pending_at_shutdown>>

\* ------------------------------------------- dispatcher: _manage_events
\* while not self._shutdown_requested
DispLoop ==
  /\ disp_pc = "loop"
  /\ disp_pc' = IF em_shutdown_requested THEN "done" ELSE "get"
  /\ UNCHANGED <<qvars, svars, dvars, pvars, user_list, sub_fifo, SubLocal,
                 disp_frame, disp_targets, ev_count, subs_at_shutdown,
                 pending_at_shutdown>>

\* self._event_queue.get(timeout=1.0): an entry, formatted, and the snapshot
\* list(self._user_list); or Empty and continue
DispGet ==
  /\ disp_pc = "get"
  /\ IF event_queue # <<>>
       THEN /\ disp_frame' = Format(Head(event_queue)[1], Head(event_queue)[2])
            /\ event_queue' = Tail(event_queue)
            /\ disp_targets' = user_list
            /\ disp_pc' = "fanout"
       ELSE /\ disp_pc' = "loop"
            /\ UNCHANGED <<disp_frame, event_queue, disp_targets>>
  /\ UNCHANGED <<QNoEvents, svars, dvars, pvars, user_list, sub_fifo, SubLocal,
                 ev_count, subs_at_shutdown, pending_at_shutdown>>

\* for user_queue in list(self._user_list): user_queue.put_nowait(event_data)
DispFanout ==
  /\ disp_pc = "fanout"
  /\ IF disp_targets = {}
       THEN /\ disp_pc' = "loop"
            /\ disp_frame' = NoFrame
            /\ UNCHANGED <<sub_fifo, disp_targets>>
       ELSE \E s \in disp_targets :
              /\ sub_fifo' = [sub_fifo EXCEPT ![s] = PutNowait(@, disp_frame)]
              /\ disp_targets' = disp_targets \ {s}
              /\ UNCHANGED <<disp_pc, disp_frame>>
  /\ UNCHANGED <<qvars, svars, dvars, pvars, user_list, SubLocal, ev_count,
                 subs_at_shutdown, pending_at_shutdown>>

Dispatcher == DispLoop \/ DispGet \/ DispFanout

\* ------------------------------------------------- subscriber: watch()
\* the loop never left on the flag
WatchLoopForever == FALSE

\* while not self._shutdown_requested: the loop is left when this holds
WatchLoopExit == em_shutdown_requested

\* event_queue = Queue(); self._user_list.add(event_queue)
SubStart(s) ==
  /\ ~NoAudioManager
  /\ sub_pc[s] = "idle"
  /\ user_list' = user_list \cup {s}
  /\ sub_pc' = [sub_pc EXCEPT ![s] = "loop"]
  /\ UNCHANGED <<qvars, svars, dvars, pvars, sub_fifo, sub_yields, sub_end,
                 DispLocal, ev_count, subs_at_shutdown,
                 pending_at_shutdown>>

\* the loop test
SubLoop(s) ==
  /\ sub_pc[s] = "loop"
  /\ IF WatchLoopExit
       THEN /\ sub_pc' = [sub_pc EXCEPT ![s] = "final"]
            /\ sub_end' = [sub_end EXCEPT ![s] = "flag"]
       ELSE /\ sub_pc' = [sub_pc EXCEPT ![s] = "get"]
            /\ UNCHANGED sub_end
  /\ UNCHANGED <<qvars, svars, dvars, pvars, user_list, sub_fifo, sub_yields,
                 DispLocal, ev_count, subs_at_shutdown,
                 pending_at_shutdown>>

\* event = event_queue.get(timeout=1.0); if event == SHUTDOWN: break;
\* yield event.  Empty is suppressed and the loop goes on.
SubGet(s) ==
  /\ sub_pc[s] = "get"
  /\ IF sub_fifo[s] = <<>>
       THEN /\ sub_pc' = [sub_pc EXCEPT ![s] = "loop"]
            /\ UNCHANGED <<sub_fifo, sub_yields, sub_end>>
       ELSE /\ sub_fifo' = [sub_fifo EXCEPT ![s] = Tail(@)]
            /\ IF Head(sub_fifo[s]) = ShutdownString
                 THEN /\ sub_pc' = [sub_pc EXCEPT ![s] = "final"]
                      /\ sub_end' = [sub_end EXCEPT ![s] = "sentinel"]
                      /\ UNCHANGED sub_yields
                 ELSE /\ sub_pc' = [sub_pc EXCEPT ![s] = "yield"]
                      /\ sub_yields' = [sub_yields EXCEPT ![s] =
                                          Append(@, Head(sub_fifo[s]))]
                      /\ UNCHANGED sub_end
  /\ UNCHANGED <<qvars, svars, dvars, pvars, user_list, DispLocal, ev_count,
                 subs_at_shutdown, pending_at_shutdown>>

\* the consumer asks for the next frame: the generator resumes after yield
SubResume(s) ==
  /\ sub_pc[s] = "yield"
  /\ sub_pc' = [sub_pc EXCEPT ![s] = "loop"]
  /\ UNCHANGED <<qvars, svars, dvars, pvars, user_list, sub_fifo, sub_yields,
                 sub_end, DispLocal, ev_count, subs_at_shutdown,
                 pending_at_shutdown>>

\* except GeneratorExit: the client went away while the generator was
\* suspended at yield
SubDisconnect(s) ==
  /\ sub_pc[s] = "yield"
  /\ sub_pc' = [sub_pc EXCEPT ![s] = "final"]
  /\ sub_end' = [sub_end EXCEPT ![s] = "disconnect"]
  /\ UNCHANGED <<qvars, svars, dvars, pvars, user_list, sub_fifo, sub_yields,
                 DispLocal, ev_count, subs_at_shutdown,
                 pending_at_shutdown>>

\* finally: self._user_list.discard(event_queue)
SubFinal(s) ==
  /\ sub_pc[s] = "final"
  /\ user_list' = user_list \ {s}
  /\ sub_pc' = [sub_pc EXCEPT ![s] = "done"]
  /\ UNCHANGED <<qvars, svars, dvars, pvars, sub_fifo, sub_yields, sub_end,
                 DispLocal, ev_count, subs_at_shutdown,
                 pending_at_shutdown>>

SubRun(s) == SubLoop(s) \/ SubGet(s) \/ SubResume(s) \/ SubFinal(s)

Subscriber == \E s \in Subs : SubStart(s) \/ SubRun(s) \/ SubDisconnect(s)

\* one caller of shutdown(): the event manager sees the first call only
NextEvents == EmitEvent \/ Dispatcher \/ Subscriber \/ ShutdownBy(1)
SpecEvents == Init /\ [][NextEvents]_vars

\* the dispatcher thread and every started generator whose consumer keeps
\* asking for frames go on running
SpecEventsFair ==
  /\ SpecEvents
  /\ WF_vars(Dispatcher)
  /\ \A s \in Subs : WF_vars(SubRun(s))

\* ===================================================== scheduler with a backlog
\* The station after k add_track calls were served while the scheduler was
\* between two iterations: k tracks wait in the user queue, their queueadd
\* events are on the event queue.
Backlog(k) == [i \in 1..k |-> ((i - 1) % MaxId) + 1]

InitBacklog ==
  /\ \E k \in 0..MaxBacklog :
       /\ user_queue = Backlog(k)
       /\ event_queue = [i \in 1..k |-> <<"queueadd", Backlog(k)[i]>>]
  /\ auto_queue = <<>> /\ track_history = <<>>
  /\ skip_event = FALSE /\ now_playing = None /\ next_track_signal = FALSE
  /\ track_processes = {}
  /\ sched_pc = "clear" /\ next_track = None /\ error_count = 0
  /\ track_queue = <<>> /\ writer_pc = "get" /\ writer_track = None
  /\ add_pc = [w \in Workers |-> "idle"] /\ add_url = [w \in Workers |-> None]
  /\ started = <<>> /\ pre_head = None
  /\ refills = 0
  /\ queue_lock = "free" /\ track_alive = {} /\ spawn_failed = FALSE
  /\ SInit /\ DInit /\ EInit /\ PInit

\* the writer steps that do not wait for the per-track process
WriterRun ==
  \/ WriterGet
  \/ WriterStopped
  \/ WriterNowPlaying
  \/ WriterHistory
  \/ WriterSpawn
  \/ WriterRegister
  \/ WriterPipeBreak
  \/ WriterWrite
  \/ WriterClearSkip
  \/ WriterSignal

NextBacklog == SkipTrack \/ Scheduler \/ Writer \/ ShutdownBy(1)
SpecBacklog == InitBacklog /\ [][NextBacklog]_vars

\* the scheduler and the writer threads go on running; the per-track read
\* returns, so that the writer tests the skip flag
SpecBacklogFair ==
  /\ SpecBacklog
  /\ WF_vars(Scheduler)
  /\ WF_vars(WriterRun)

\* shutdown() past its stopped test: the straight-line rest of the call
ShutdownRest ==
  \E c \in Callers : ShutdownMark(c) \/ ShutdownSweep(c) \/ ShutdownSignal(c)

\* the same; a shutdown() that began runs to its return, and every track has
\* an end: the per-track process does not produce output for ever
SpecBacklogEnds ==
  /\ SpecBacklogFair
  /\ WF_vars(ShutdownRest)
  /\ SF_vars(WriterPipeEof)

\* ================================================================ claims
LastN(q, n) == SubSeq(q, Len(q) - n + 1, Len(q))
AutoIds == {auto_queue[i] : i \in 1..Len(auto_queue)}
BufferChunks(l) == {i \in 1..Len(yields[l]) : yields[l][i].src = "buffer"}
DataFrames == {Frame(DataPage(n)) : n \in 1..MaxPages}

\* C1: after N tracks started playback, History holds exactly min(N, 50) ids,
\* the last min(N, 50) started ids in play order (the oldest is evicted when
\* the 51st is appended).
C1_HistoryBounded ==
  /\ Len(track_history) = Min(Len(started), HistoryMaxSize)
  /\ track_history = LastN(started, Min(Len(started), HistoryMaxSize))

C1_Witness ==
  /\ Len(started) = HistoryMaxSize + 1
  /\ Len(track_history) = HistoryMaxSize
  /\ started[1] # started[Len(started)]
  /\ track_history[HistoryMaxSize] = started[HistoryMaxSize + 1]

\* C2: immediately after a refill (_populate_auto_queue has extended the auto
\* queue and get_next_track has not yet popped) no id of the auto queue is in
\* History, and none equals the id of the track that played last.
C2_AutoQueueDedup ==
  sched_pc = "gnt_pop" =>
    /\ AutoIds \cap HistoryIds(track_history) = {}
    /\ now_playing \notin AutoIds
    /\ started # <<>> /\ started[Len(started)] \notin AutoIds

C2_Witness ==
  /\ sched_pc = "gnt_pop"
  /\ user_queue = <<>>
  /\ auto_queue # <<>>
  /\ started # <<>>
  /\ now_playing = started[Len(started)]
  /\ refills = 1

\* C3: a get_next_track() call that began while not stopped with a non-empty
\* user queue returns the element that was at the front of the user queue,
\* and the auto queue is empty when it returns.
C3_UserPreemption ==
  (sched_pc = "resolve" /\ pre_head # None) =>
    /\ next_track = pre_head
    /\ auto_queue = <<>>

C3_Witness ==
  /\ sched_pc = "resolve"
  /\ pre_head # None
  /\ next_track = pre_head
  /\ refills > 0
  /\ Len(started) = 2
  /\ \E w \in Workers : add_pc[w] = "event"

\* C4: whatever the number of shutdown() calls, sequential or concurrent, the
\* shutdown body runs exactly once (once the station is stopped it has run
\* once); a call that finds the station stopped changes no state of the
\* station.
C4_IdempotentShutdown ==
  /\ [](sd_runs <= 1 /\ (stopped <=> sd_runs = 1))
  /\ [][\A c \in Callers :
          (stopped /\ ShutdownEnter(c)) =>
            UNCHANGED <<qvars, svars, stopped, shutdown_lock, ffmpeg_process,
                        em_shutdown_requested, sd_pc, sd_runs>>]_vars

C4_Witness ==
  /\ sd_noops
  /\ sd_runs = 1
  /\ \A c \in Callers : sd_pc[c] = "idle"
  /\ track_processes = {}
  /\ started # <<>>

\* C5: is_alive() is true exactly when the splicer thread is still running
\* and the stopped flag is not set; it is false once shutdown() has set the
\* flag and once the splicer has exited.
C5_IsAlive ==
  /\ IsAlive <=> (reader_pc # "done" /\ ~stopped)
  /\ sd_runs > 0 => ~IsAlive
  /\ reader_pc = "done" => ~IsAlive

C5_Witness ==
  /\ stopped
  /\ reader_pc \notin {"start", "done"}
  /\ ~IsAlive

\* C6: reading buffer fails with Interrupted exactly when no frame is
\* available and the station is dead (splicer not running or shutdown
\* requested); it does not fail while the station is alive and no frame has
\* been published yet.
C6_BufferInterruptedIffDead ==
  BufferRaises <=> (buffer_data = <<>> /\ ~IsAlive)

\* C7 as claimed: when the station died (splicer exited or shutdown
\* requested) before a header was published, wait_for_header() fails with
\* Interrupted.
C7_DiesBeforeHeaderInterrupted ==
  \A l \in Listeners :
    (wfh_pre[l] \in {"exited", "shutdown"} /\ wfh_result[l] # "none") =>
      wfh_result[l] = "Interrupted"

\* C7: wait_for_header() has three outcomes.  It returns the header, which is
\* then non-empty, published by the splicer, and the station is alive; it
\* fails with Timeout, and then the header event is not set; it fails with
\* Interrupted, and then the event is set and the station is dead.  When the
\* station died before a header was published it never returns: it fails with
\* Interrupted once shutdown() has set the header event and with Timeout
\* before that; a splicer that exited without shutdown never sets the event,
\* so the call fails with Timeout.
C7_WaitForHeaderOutcomes ==
  [][\A l \in Listeners :
       (wfh_result[l] = "none" /\ wfh_result'[l] # "none") =>
         /\ wfh_result'[l] \in {"header", "Timeout", "Interrupted"}
         /\ wfh_result'[l] = "header" =>
              /\ audio_header_event /\ header_published
              /\ header_data # <<>>
              /\ IsAlive
              /\ Len(yields'[l]) = 1
              /\ yields'[l][1].data = header_data
         /\ wfh_result'[l] = "Timeout" => ~audio_header_event
         /\ wfh_result'[l] = "Interrupted" =>
              /\ audio_header_event
              /\ ~reader_alive \/ stopped
              /\ yields'[l] = <<>>
         /\ wfh_pre[l] \in {"exited", "shutdown"} =>
              /\ wfh_result'[l] # "header"
              /\ ~stopped => wfh_result'[l] = "Timeout"
     ]_vars

C7_Witness ==
  \E l \in Listeners :
    /\ wfh_pre[l] = "exited"
    /\ wfh_result[l] = "Timeout"
    /\ ~stopped
    /\ ~header_published

\* C8 as claimed: a published header is the concatenation of the first two
\* pages read and the first of them has header-type flag 2.
C8_PublishedHeaderIsBos ==
  header_published =>
    /\ header_data = PageBytes(first_page) \o PageBytes(second_page)
    /\ first_page.flag = BosFlag

\* C8: a published header is the byte concatenation of exactly the first two
\* pages read from the mixer output; a first page whose flag is not 2 is only
\* logged and the header is published all the same, so the flag byte of the
\* published header is 2 exactly when the first page of the mixer was BOS.
C8_HeaderExactness ==
  header_published =>
    /\ pages_read >= 2
    /\ first_page \in MixerPage(1) /\ second_page \in MixerPage(2)
    /\ header_data =
         OggS \o first_page.header \o first_page.segtable \o first_page.data
         \o OggS \o second_page.header \o second_page.segtable
         \o second_page.data
    /\ header_data[6] = first_page.flag

C8_Witness ==
  /\ header_published
  /\ audio_header_event
  /\ first_page.flag # BosFlag
  /\ header_data[6] # BosFlag

C10_EachPageAtMostOnce ==
  \A l \in Listeners :
    \A i, j \in BufferChunks(l) :
      i # j => yields[l][i].pub # yields[l][j].pub

\* the publication numbers of the frames a listener yielded, in yield order
BufferPubs(l) ==
  LET idx == SelectSeq([i \in 1..Len(yields[l]) |-> i],
                       LAMBDA i : yields[l][i].src = "buffer")
  IN  [k \in 1..Len(idx) |-> yields[l][idx[k]].pub]

\* C11: the frames a listener yields are in the order the mixer produced the
\* pages (never a page older than one already yielded), and a listener that
\* was waiting on the edge event at every publication since it connected
\* yields every page from its first one on, in that order: no page is left
\* out between two frames it yields.
C11_PageOrdering ==
  \A l \in Listeners :
    /\ \A i, j \in 1..Len(BufferPubs(l)) :
         i < j => BufferPubs(l)[i] <= BufferPubs(l)[j]
    /\ ~gas_missed[l] =>
         \A k \in 2..Len(BufferPubs(l)) :
           BufferPubs(l)[k] <= BufferPubs(l)[k - 1] + 1

\* the frames of add_event() calls a subscriber yielded, in yield order
EventYields(s) == SelectSeq(sub_yields[s], LAMBDA f : f.kind # "shutdown")

\* C12: the frames a subscriber yields from watch() are in the order of the
\* add_event() calls (the n-th call carries n), no event is yielded twice,
\* and each frame is the formatted form of the event that was enqueued.
C12_EventOrdering ==
  \A s \in Subs :
    /\ \A i, j \in 1..Len(EventYields(s)) :
         i < j => EventYields(s)[i].data < EventYields(s)[j].data
    /\ \A i \in 1..Len(EventYields(s)) :
         /\ EventYields(s)[i].data \in 1..ev_count
         /\ EventYields(s)[i] =
              Format(IF EventYields(s)[i].data % 2 = 1 THEN "queueadd"
                                                       ELSE "nowplaying",
                     EventYields(s)[i].data)

C12_Witness ==
  \E s \in Subs :
    /\ Len(EventYields(s)) = MaxEvents
    /\ EventYields(s)[1].data = 1
    /\ EventYields(s)[MaxEvents].data = MaxEvents

\* C13: the number of frames pending in a subscriber FIFO stays below a
\* capacity that does not depend on the number of events: with MaxEvents
\* events added, a subscriber that never reads holds fewer than MaxEvents
\* frames, the others having been dropped.
C13_SubscriberFifoBounded ==
  \A s \in Subs : Len(sub_fifo[s]) < MaxEvents

\* C14: a subscriber that was registered when shutdown() was called and whose
\* watch() has ended without the client going away ended it on the shutdown
\* sentinel taken from its FIFO.
C14_SentinelEndsWatch ==
  \A s \in subs_at_shutdown :
    sub_pc[s] = "done" => sub_end[s] \in {"sentinel", "disconnect"}

\* C15: once EventManager.shutdown() has been called, every watch()
\* generator that is started and whose consumer keeps asking for frames ends
\* and is no longer in the subscriber set, and the dispatcher thread ends.
C15_SubscribersTerminate ==
  em_shutdown_requested ~>
    /\ disp_pc = "done"
    /\ \A s \in Subs : sub_pc[s] \in {"idle", "done"} /\ s \notin user_list

C15_Witness ==
  /\ em_shutdown_requested
  /\ disp_pc = "done"
  /\ \E s \in subs_at_shutdown :
       /\ sub_pc[s] = "done"
       /\ sub_end[s] = "flag"
       /\ sub_yields[s] # <<>>
  /\ user_list = {}

\* occurrences of the event <<kind, x>> among the first j entries of the
\* shared event queue
CountEvents(kind, x, j) ==
  Cardinality({i \in 1..j : event_queue[i] = <<kind, x>>})

\* C16: for every track added through add_track and played, the queueadd
\* event is enqueued before the nowplaying event: as long as every dequeued
\* track came from the user queue, every prefix of the event queue holds at
\* least as many queueadd events of a track as nowplaying events of it.
C16_QueueAddBeforeNowPlaying ==
  refills = 0 =>
    \A j \in 1..Len(event_queue) : \A x \in IDs :
      CountEvents("nowplaying", x, j) <= CountEvents("queueadd", x, j)

\* get_next_track returned None: the scheduler sleeps and polls again
SchedIdle == sched_pc = "clear" /\ next_track = None

\* C17: when the skip flag is set while the n-th track is piped (the
\* per-track read returning), the writer leaves the piping loop, cleans up,
\* clears the flag and sets the next_track signal; then nowplaying is emitted
\* for a next track, or the scheduler finds no track and idles, unless
\* shutdown() is called.
C17_SkipResponse ==
  /\ (writer_pc = "pipe" /\ skip_event) ~> (writer_pc \in {"get", "done"})
  /\ \A n \in 1..(MaxBacklog + MaxRefills * MaxRelatedLen) :
       (writer_pc = "pipe" /\ skip_event /\ Len(started) = n) ~>
         \/ stopped
         \/ Len(started) > n
         \/ SchedIdle /\ writer_pc = "get"

\* C18: a step of the scheduler in which the resolution of the dequeued
\* candidate fails emits no event, hands nothing to the writer and leaves
\* now_playing and History as they are.
C18_FailedResolutionSilent ==
  [][(sched_pc = "resolve" /\ error_count' > error_count) =>
       UNCHANGED <<event_queue, track_queue, now_playing, track_history,
                   started, writer_pc, writer_track>>]_vars

C18_Witness ==
  /\ error_count > 0
  /\ sched_pc = "clear"
  /\ started # <<>>
  /\ now_playing = started[Len(started)]
  /\ next_track # None /\ next_track # now_playing
  /\ ~stopped

\* C19: whatever the number of dequeued tracks whose resolution fails, the
\* scheduler loop is still running as long as shutdown() was not called (so
\* that a resolvable track of the user queue is played in the end).
C19_SchedulerSurvivesFailures ==
  sched_pc = "done" => stopped

\* the fields of the station (AudioQueueManager.__slots__)
StationFields ==
  <<stopped, user_queue, auto_queue, track_history, skip_event,
    audio_buffer_event, audio_header_event, now_playing, header_data,
    buffer_data, next_track_signal, ffmpeg_process, track_processes,
    em_shutdown_requested>>

\* C20: after five scheduler iterations in a row that raised, the scheduler
\* loop has stopped, no track is dequeued or handed to the writer afterwards,
\* and the step that stops the loop marks the station: it changes a field of
\* the station.
C20_FailureLimitMarksUnhealthy ==
  /\ [](error_count >= MaxError => sched_pc = "done")
  /\ [][sched_pc = "done" =>
          UNCHANGED <<sched_pc, user_queue, auto_queue, track_queue,
                      now_playing>>]_vars
  /\ [][(sched_pc # "done" /\ sched_pc' = "done" /\ ~stopped) =>
          StationFields' # StationFields]_vars

\* C21: when the spawn of the per-track transcoder raised for a resolved
\* track, the track is skipped and the scheduler, as it resumes, counts the
\* failure: its consecutive-failure counter goes up by one, and the scheduler
\* stops when the counter reaches five.
C21_SpawnFailureCounts ==
  [][(sched_pc = "wait" /\ sched_pc' # "wait" /\ spawn_failed /\ ~stopped) =>
       /\ error_count' = error_count + 1
       /\ error_count' >= MaxError => sched_pc' = "done"]_vars

\* C22: every step that changes UserQueue or AutoQueue (append, pop-front,
\* clear, refill extend) is taken by the thread that holds the queue lock at
\* that step: an add worker inside its with block, or the scheduler inside
\* the with block of get_next_track.
C22_QueueLockDiscipline ==
  [][(user_queue' # user_queue \/ auto_queue' # auto_queue) =>
       \/ /\ queue_lock = "sched"
          /\ sched_pc = "gnt_in" /\ sched_pc' # "gnt_in"
       \/ /\ queue_lock = "add"
          /\ \E w \in Workers : add_pc[w] = "locked" /\ add_pc'[w] # "locked"
     ]_vars

\* the per-track transcoder of the track the writer is busy with
WriterHasProcess == writer_pc \in {"register", "pipe", "write"}

\* C23: a per-track transcoder runs or is registered only while the writer is
\* busy with its track (it is terminated and removed as the track ends, is
\* skipped or fails on the mixer); once the skip flag or the stopped flag is
\* set, a running process is terminated and removed; after shutdown() has
\* returned the writer runs to its exit, and then no per-track process runs or
\* is registered, also when the spawn came after the sweep of shutdown().
C23_ProcessCleanup ==
  /\ [](~WriterHasProcess => track_alive = {} /\ track_processes = {})
  /\ [](track_alive \cup track_processes \subseteq {Len(started)})
  /\ (track_alive # {} /\ (skip_event \/ stopped)) ~>
       (track_alive = {} /\ track_processes = {})
  /\ (stopped /\ \A c \in Callers : sd_pc[c] = "idle") ~>
       (writer_pc = "done" /\ track_alive = {} /\ track_processes = {})

\* shutdown() has returned, its sweep found no process, and the process the
\* writer spawned meanwhile runs and is registered
C23_Witness ==
  /\ stopped
  /\ \A c \in Callers : sd_pc[c] = "idle"
  /\ writer_pc = "pipe"
  /\ Len(started) \in track_alive \cap track_processes

\* C24: once shutdown() has returned, every audio listener generator that was
\* started (blocked in event.wait(), about to call it, or in
\* wait_for_header()) ends, whatever the interleaving with the set() and
\* clear() of the splicer.
C24_ShutdownUnblocksListeners ==
  (stopped /\ \A c \in Callers : sd_pc[c] = "idle") ~>
    \A l \in Listeners : gas_pc[l] \in {"idle", "refused", "ended"}

\* C25: the stopped flag becomes true only in the step of shutdown() that
\* assigns it and never becomes false again; in a state where it is true a
\* call of get_next_track returns None and touches no queue, add_track starts
\* no worker and skip_track does not set the skip event.
C25_StoppedTerminal ==
  [][/\ stopped' # stopped =>
          /\ ~stopped /\ stopped'
          /\ \E c \in Callers : sd_pc[c] = "mark" /\ sd_pc'[c] = "sweep"
     /\ stopped =>
          /\ \A w \in Workers : add_pc[w] = "idle" => add_pc'[w] = "idle"
          /\ skip_event' => skip_event
          /\ (sched_pc = "gnt" /\ sched_pc' # "gnt") =>
               /\ next_track' = None /\ sched_pc' = "clear"
               /\ user_queue' = user_queue /\ auto_queue' = auto_queue]_vars

\* the station is stopped while a call of get_next_track is about to run, an
\* add worker slot is still free and tracks are still queued
C25_Witness ==
  /\ stopped
  /\ sched_pc = "gnt"
  /\ user_queue # <<>>
  /\ \E w \in Workers : add_pc[w] = "idle"

\* ------------------------------------------------ queue endpoints: SpecPage
Max(a, b) == IF a > b THEN a ELSE b

\* a Python slice bound on a list of length n: a negative bound counts from
\* the end, and the bound is clamped to 0..n
SliceBound(i, n) == IF i < 0 THEN Max(i + n, 0) ELSE Min(i, n)

\* q[a:b] in Python
PySlice(q, a, b) ==
  LET lo == SliceBound(a, Len(q))
      hi == SliceBound(b, Len(q))
  IN  IF lo < hi THEN SubSeq(q, lo + 1, hi) ELSE <<>>

\* the page indexes a request carries (int(request.args.get("index", ...)))
PageIndexes == (0 - 2)..MaxPageIndex

\* end_offset = min((page_index + 1) * items_per_page, len(queue))
EndOffset(i, n) == Min((i + 1) * ItemsPerPage, n)

\* start_offset = max(end_offset - items_per_page, 0)
StartOffset(e) == Max(e - ItemsPerPage, 0)

\* the queue property: with self._queue_lock: return self._user_queue.copy()
QueueCopy(q) == queue_lock = "free" /\ q = user_queue

\* routes/queue.py get_queue_info: one copy of the queue, the offsets and the
\* slice are taken from it
GetQueueInfo ==
  /\ ~NoAudioManager
  /\ pg_pc = "idle"
  /\ \E i \in PageIndexes, queue \in {user_queue} :
       /\ QueueCopy(queue)
       /\ pg_index' = i
       /\ pg_end' = EndOffset(i, Len(queue))
       /\ pg_first' = queue
       /\ pg_snapshot' = queue
       /\ pg_result' =
            PySlice(queue, StartOffset(EndOffset(i, Len(queue))),
                    EndOffset(i, Len(queue)))
  /\ pg_pc' = "done"
  /\ UNCHANGED <<qvars, svars, dvars, evars>>

\* main.py get_queue_info: end_offset from len(audio_manager.queue)
MainGetQueueInfoLen ==
  /\ ~NoAudioManager
  /\ pg_pc = "idle"
  /\ \E i \in PageIndexes, queue \in {user_queue} :
       /\ QueueCopy(queue)
       /\ pg_index' = i
       /\ pg_end' = EndOffset(i, Len(queue))
       /\ pg_first' = queue
  /\ pg_pc' = "slice"
  /\ UNCHANGED <<pg_snapshot, pg_result, qvars, svars, dvars, evars>>

\* main.py get_queue_info: audio_manager.queue[start_offset:end_offset], the
\* queue property read a second time
MainGetQueueInfoSlice ==
  /\ pg_pc = "slice"
  /\ \E queue \in {user_queue} :
       /\ QueueCopy(queue)
       /\ pg_snapshot' = queue
       /\ pg_result' = PySlice(queue, StartOffset(pg_end), pg_end)
  /\ pg_pc' = "done"
  /\ UNCHANGED <<pg_index, pg_end, pg_first, qvars, svars, dvars, evars>>

\* the user queue holds n tracks when the request arrives; the scheduler is
\* at the top of its loop
InitPage ==
  /\ \E n \in 0..MaxQueueLen : user_queue = [k \in 1..n |-> k]
  /\ auto_queue = <<>> /\ track_history = <<>>
  /\ skip_event = FALSE /\ now_playing = None /\ next_track_signal = FALSE
  /\ track_processes = {} /\ event_queue = <<>>
  /\ sched_pc = "clear" /\ next_track = None /\ error_count = 0
  /\ track_queue = <<>> /\ writer_pc = "get" /\ writer_track = None
  /\ add_pc = [w \in Workers |-> "idle"]
  /\ add_url = [w \in Workers |-> None]
  /\ started = <<>> /\ pre_head = None
  /\ refills = 0
  /\ queue_lock = "free" /\ track_alive = {} /\ spawn_failed = FALSE
  /\ SInit /\ DInit /\ EInit /\ PInit

\* one request beside the scheduler taking the next track
NextPage ==
  \/ GetQueueInfo
  \/ MainGetQueueInfoLen
  \/ MainGetQueueInfoSlice
  \/ SchedLoop
  \/ GetNextTrackBegin
  \/ GetNextTrackLock
  \/ GetNextTrackUser
SpecPage == InitPage /\ [][NextPage]_vars

\* the page of queue q with index i, as the specification defines it
PageOf(q, i) ==
  LET end == Min((i + 1) * 5, Len(q))
      start == Max(0, end - 5)
  IN  [k \in 1..(end - start) |-> q[start + k]]

\* C26: a served request with a page index >= 0 returns the slice
\* [max(0, end-5), end) with end = min((page+1)*5, len) of a queue snapshot it
\* took (main.py takes two), never more than 5 items.
C26_Pagination ==
  (pg_pc = "done" /\ pg_index >= 0) =>
    /\ \/ pg_result = PageOf(pg_snapshot, pg_index)
       \/ pg_result = PageOf(pg_first, pg_index)
    /\ Len(pg_result) <= 5

\* the scheduler is inside get_next_track or resolves the track it returned
SchedDequeues ==
  sched_pc \in {"gnt", "gnt_lock", "gnt_in", "gnt_auto", "refill", "gnt_pop",
                "resolve"}

\* the writer holds no track: it waits on the track queue or has ended
WriterIdle == writer_pc \in {"get", "done"}

\* C27: at most one track is handed over or piped at a time and at most one
\* per-track process is alive or registered; while the scheduler dequeues or
\* resolves a track the writer holds none, no track waits for it and no
\* per-track process is left.
C27_SinglePlayback ==
  /\ Len(track_queue) <= 1
  /\ Cardinality(track_alive \cup track_processes) <= 1
  /\ (track_queue # <<>>) => WriterIdle
  /\ SchedDequeues =>
       /\ WriterIdle
       /\ track_queue = <<>>
       /\ track_alive = {} /\ track_processes = {}

\* the scheduler resolves the next track after the writer has finished one
C27_Witness ==
  /\ sched_pc = "resolve"
  /\ started # <<>>
  /\ next_track_signal = FALSE
  /\ WriterIdle /\ ~stopped

\* C28: when the spawn of the main mixer failed at construction, the
\* controller exists all the same, no header and no frame is ever published,
\* is_alive() is false once the splicer thread has exited, and no audio
\* stream is started.
C28_DegradedState ==
  (ffmpeg_process = MISSING) =>
    /\ audio_manager # None
    /\ ~header_published /\ pub_count = 0
    /\ (reader_pc = "done") => ~IsAlive
    /\ \A l \in Listeners : gas_pc[l] \in {"idle", "refused"}

\* what a step of add worker w does to the shared state, the effect of its
\* add_event call being given: add_track starts a worker only when not
\* stopped; the stopped test and the resolution touch nothing, and a stopped
\* station or a failed resolution ends the worker; the append puts the track
\* at the tail of the user queue; nothing else is touched
AddStepEffect(w, emitted) ==
  /\ auto_queue' = auto_queue
  /\ now_playing' = now_playing
  /\ track_history' = track_history
  /\ add_pc[w] \in {"idle", "start", "append"} =>
       user_queue' = user_queue /\ event_queue' = event_queue
  /\ add_pc[w] = "idle" => ~stopped
  /\ add_pc[w] = "start" =>
       /\ add_pc'[w] \in {"append", "done"}
       /\ stopped => add_pc'[w] = "done"
  /\ add_pc[w] = "append" => add_pc'[w] = "locked"
  /\ add_pc[w] = "locked" =>
       /\ user_queue' = Append(user_queue, add_url[w])
       /\ event_queue' = event_queue
       /\ add_pc'[w] = "event"
  /\ add_pc[w] = "event" =>
       /\ user_queue' = user_queue
       /\ emitted
       /\ add_pc'[w] = "done"

\* the user queue grows, and a queueadd event is queued, only in a step of
\* an add worker
OnlyAddWorkersAdd ==
  /\ Len(user_queue') > Len(user_queue) =>
       \E w \in Workers : add_pc[w] = "locked" /\ add_pc'[w] = "event"
  /\ (Len(event_queue') > Len(event_queue)
        /\ event_queue'[Len(event_queue')][1] = "queueadd") =>
       \E w \in Workers : add_pc[w] = "event" /\ add_pc'[w] = "done"

\* the event of worker w is queued
QueueAddEmitted(w) ==
  event_queue' = Append(event_queue, <<"queueadd", add_url[w]>>)

\* C29 as stated: an add whose resolution succeeds appends its track to the
\* tail of the user queue once and emits one queueadd event carrying it; a
\* failed resolution or an add after shutdown changes nothing; no add step
\* changes the auto queue, now_playing or the history.
C29_AddAlwaysEmits ==
  [][/\ \A w \in Workers :
          add_pc'[w] # add_pc[w] => AddStepEffect(w, QueueAddEmitted(w))
     /\ OnlyAddWorkersAdd]_vars

\* C29 amended: the same, but the queueadd event is emitted only when
\* shutdown has not been requested before the worker calls add_event; when it
\* has, the track stays appended and no event is emitted.
C29_AddEffects ==
  [][/\ \A w \in Workers :
          add_pc'[w] # add_pc[w] =>
            AddStepEffect(w, IF em_shutdown_requested
                               THEN event_queue' = event_queue
                               ELSE QueueAddEmitted(w))
     /\ OnlyAddWorkersAdd]_vars

\* worker 1 has added its track and emitted its event; worker 2 appended its
\* track, shutdown was requested, and its event was not emitted
C29_Witness ==
  /\ \A w \in Workers : add_pc[w] = "done"
  /\ Len(user_queue) = 2
  /\ user_queue[2] = add_url[2]
  /\ em_shutdown_requested
  /\ Len(event_queue) = 2
  /\ event_queue[1] = <<"queueadd", add_url[1]>>
  /\ event_queue[2] = <<"shutdown", None>>

\* get_next_track has just returned None with both queues empty, the writer
\* waits for a track: nothing is played and nothing is left to play
StationIdle ==
  /\ sched_pc = "clear" /\ next_track = None
  /\ user_queue = <<>> /\ auto_queue = <<>>
  /\ track_queue = <<>> /\ writer_pc = "get"
  /\ ~stopped

\* C30: now_playing is null whenever the station is idle: before the first
\* track, and again after the last track has ended with both queues empty
\* and a refill that yielded nothing.
C30_NullWhenIdle == StationIdle => now_playing = None

\* the writer holds a track it took from the track queue
WriterHoldsTrack == writer_pc \notin {"get", "done"}

\* the writer has a per-track process or is about to spawn it: the only
\* positions from which bytes of the track reach the mixer
WriterPlays == writer_pc \in {"spawn", "register", "pipe", "write"}

\* the nowplaying events queued so far
NowPlayingEvents == SelectSeq(event_queue, LAMBDA e : e[1] = "nowplaying")

\* the bookkeeping of a track the writer took, the way its stopped test and
\* its add_event call end being given: the track is announced, then its id
\* is appended to History, each once and in the steps of the writer that do
\* just that; now_playing is the track the writer holds, and it changes only
\* while the writer holds none
PlayStartSteps(taken, announced) ==
  /\ (writer_pc = "chk" /\ writer_pc' # "chk") => taken
  /\ (writer_pc = "np" /\ writer_pc' # "np") =>
       /\ announced
       /\ now_playing = writer_track
       /\ writer_pc' = "hist"
  /\ (writer_pc = "hist" /\ writer_pc' # "hist") =>
       /\ started' = Append(started, writer_track)
       /\ track_history' = AddToHistory(track_history, writer_track)
       /\ writer_pc' = "spawn"
  /\ NowPlayingEvents' # NowPlayingEvents => writer_pc = "np"
  /\ (started' # started \/ track_history' # track_history) =>
       writer_pc = "hist"
  /\ now_playing' # now_playing =>
       /\ writer_pc \in {"get", "done"}
       /\ track_queue = <<>>

\* the nowplaying event of the track the writer holds is queued
NowPlayingEmitted ==
  event_queue' = Append(event_queue, <<"nowplaying", writer_track>>)

\* a track that is played was announced and entered History before, and is
\* now_playing until the writer sets the signal
PlayStartState ==
  /\ WriterHoldsTrack => now_playing = writer_track
  /\ WriterPlays =>
       /\ started # <<>>
       /\ started[Len(started)] = writer_track

\* C31 as stated: every track handed to the writer gets one nowplaying event
\* and one History entry before any of its bytes is written; now_playing is
\* that track when the event is emitted and until its signal is set.
C31_EveryTrackAnnounced ==
  /\ [][PlayStartSteps(writer_pc' = "np", NowPlayingEmitted)]_vars
  /\ [](PlayStartState /\
        (WriterPlays => Len(NowPlayingEvents) = Len(started)))

\* C31 amended: a track the writer takes after shutdown was requested is
\* dropped without event or History entry; a track that passed the stopped
\* test gets its History entry, and its nowplaying event unless shutdown was
\* requested before the add_event call.
C31_PlayStart ==
  /\ [][PlayStartSteps(writer_pc' = IF stopped THEN "done" ELSE "np",
                       IF em_shutdown_requested
                         THEN event_queue' = event_queue
                         ELSE NowPlayingEmitted)]_vars
  /\ [](PlayStartState /\
        (WriterPlays =>
           /\ Len(NowPlayingEvents) <= Len(started)
           /\ ~stopped => Len(NowPlayingEvents) = Len(started)))

\* the second track is being piped: two events, two History entries
C31_Witness ==
  /\ writer_pc = "pipe"
  /\ Len(started) = 2
  /\ Len(NowPlayingEvents) = 2
  /\ NowPlayingEvents[2] = <<"nowplaying", writer_track>>
  /\ now_playing = writer_track

\* the frames of sequence q
Frames(q) == {q[i] : i \in 1..Len(q)}

\* C32: a subscriber whose watch() has ended after shutdown(), the client
\* still connected, has yielded every frame that was in its FIFO when
\* shutdown() was called.
C32_DrainOnShutdown ==
  \A s \in subs_at_shutdown :
    (sub_pc[s] = "done" /\ sub_end[s] # "disconnect") =>
      Frames(pending_at_shutdown[s]) \subseteq Frames(sub_yields[s])

\* C33: when the writer starts piping a track of a station that is not
\* stopped, the skip flag is clear: a skip_track() made while nothing was
\* piped does not reach the next track.
C33_SkipFlagClearAtStart ==
  [][(writer_pc = "register" /\ writer_pc' = "pipe" /\ ~stopped) =>
       ~skip_event]_vars

\* C34: the user queue is first in, first out, and the workers append in the
\* order of their add_track calls (worker n serves the n-th call): when a
\* worker appends, no worker of an earlier call has another resolved track
\* still to be appended.
C34_UserQueueOrder ==
  [][/\ user_queue' # user_queue =>
          \/ user_queue # <<>> /\ user_queue' = Tail(user_queue)
          \/ \E w \in Workers : user_queue' = Append(user_queue, add_url[w])
     /\ \A w \in Workers :
          (add_pc[w] = "locked" /\ add_pc'[w] = "event") =>
            \A v \in Workers :
              (v < w /\ add_url[v] # add_url[w]) =>
                add_pc[v] \notin {"append", "locked"}]_vars

\* shutdown() was called and has returned
ShutdownReturned == stopped /\ \A c \in Callers : sd_pc[c] = "idle"

\* C35: once shutdown() has returned neither queue changes and no event is
\* put on the event queue.
C35_NoChangeAfterShutdown ==
  [][ShutdownReturned =>
       /\ user_queue' = user_queue
       /\ auto_queue' = auto_queue
       /\ event_queue' = event_queue]_vars

\* C36: once the splicer thread has exited with no shutdown() called, every
\* audio listener generator that was started ends, unless shutdown() is
\* called in the meantime.
C36_ListenersEndWithSplicer ==
  (reader_pc = "done" /\ ~stopped) ~>
    \/ stopped
    \/ \A l \in Listeners : gas_pc[l] \in {"idle", "refused", "ended"}

\* the scheduler ends an iteration in which get_next_track returned None
IdleIteration ==
  /\ sched_pc \in {"gnt_auto", "gnt_pop"}
  /\ sched_pc' = "clear"

\* the scheduler ends an iteration in which a track was played
PlayedIteration == sched_pc = "wait" /\ sched_pc' = "clear"

\* C37: the scheduler stops for errors only when the count of consecutive
\* failures reaches five, and every iteration that ends without raising, a
\* played track or an idle iteration, leaves the count at zero.
C37_NonRaisingIterationResets ==
  [][/\ (sched_pc # "done" /\ sched_pc' = "done" /\ ~stopped) =>
          error_count' >= MaxError
     /\ (~stopped /\ (IdleIteration \/ PlayedIteration)) =>
          error_count' = 0]_vars

\* the slice get_queue_info returns for queue q and page index i
QueuePage(q, i) ==
  PySlice(q, StartOffset(EndOffset(i, Len(q))), EndOffset(i, Len(q)))

\* the slices of pages 0..i of queue q, one after the other
RECURSIVE PagesUpTo(_, _)
PagesUpTo(q, i) ==
  IF i < 0 THEN <<>> ELSE PagesUpTo(q, i - 1) \o QueuePage(q, i)

\* C38: the slice served for a page index >= 0 from one copy of the queue
\* is empty when page*5 >= len and shares no track with the slice of any
\* other page of that queue, and the slices of pages 0, 1, 2, ... put
\* together are the queue.
C38_PagesPartition ==
  (pg_pc = "done" /\ pg_index >= 0 /\ pg_first = pg_snapshot) =>
    /\ pg_result = QueuePage(pg_snapshot, pg_index)
    /\ pg_index * 5 >= Len(pg_snapshot) => pg_result = <<>>
    /\ \A j \in 0..MaxPageIndex :
         j # pg_index =>
           Frames(pg_result) \cap Frames(QueuePage(pg_snapshot, j)) = {}
    /\ PagesUpTo(pg_snapshot, MaxPageIndex) = pg_snapshot

\* C39: a scheduler that waits for the signal of a track it handed over
\* finds the signal set and resumes, every track having an end; after
\* shutdown() has returned the scheduler thread and the writer thread end.
C39_HandOffNeverDeadlocks ==
  /\ (sched_pc = "wait") ~> (sched_pc = "wait" /\ next_track_signal)
  /\ (sched_pc = "wait") ~> (sched_pc # "wait")
  /\ ShutdownReturned ~> (sched_pc = "done" /\ writer_pc = "done")

\* the writer has played the second track to its end and set the signal,
\* the scheduler has not resumed yet
C39_Witness ==
  /\ sched_pc = "wait" /\ next_track_signal
  /\ writer_pc = "get" /\ track_queue = <<>>
  /\ Len(started) = 2
  /\ ~stopped /\ ~skip_event

\* a step in which the skip flag is set on behalf of skip_track (shutdown
\* sets it together with the stopped flag)
SkipCallStep == ~skip_event /\ skip_event' /\ ~stopped'

\* entries lead..Len(q) of a queue
Entries(q, lead) == {q[i] : i \in lead..Len(q)}

\* the user queue is left alone, popped at its head, or appended to by the
\* worker of an add_track call
UserQueueStep ==
  \/ user_queue' = user_queue
  \/ user_queue # <<>> /\ user_queue' = Tail(user_queue)
  \/ \E w \in Workers :
       add_pc[w] = "locked" /\ user_queue' = Append(user_queue, add_url[w])

\* the auto queue is left alone, popped at its head, cleared, or extended by
\* the refill with tracks that are not in History and not now_playing
AutoQueueStep ==
  \/ auto_queue' = auto_queue
  \/ auto_queue # <<>> /\ auto_queue' = Tail(auto_queue)
  \/ auto_queue' = <<>>
  \/ /\ sched_pc = "refill"
     /\ Len(auto_queue') > Len(auto_queue)
     /\ SubSeq(auto_queue', 1, Len(auto_queue)) = auto_queue
     /\ Entries(auto_queue', Len(auto_queue) + 1) \cap
          (HistoryIds(track_history) \cup {now_playing}) = {}

\* the writer past the History entry of its track, up to the signal
WriterPastHistory ==
  writer_pc \in {"spawn", "register", "pipe", "write", "clr", "sig"}

\* C40: a skip_track call changes the skip flag and nothing else: UserQueue,
\* AutoQueue, now_playing and History are as before it. The track that is
\* skipped is now_playing and in History until the signal, no step of the
\* writer changes a queue, UserQueue only gains the track of an add_track
\* call and AutoQueue only gains refill tracks that are neither in History nor
\* now_playing: nothing puts the skipped track back.
C40_SkipOnlySetsFlag ==
  /\ [](WriterPastHistory =>
          /\ now_playing = writer_track
          /\ writer_track \in HistoryIds(track_history))
  /\ [][/\ SkipCallStep =>
             UNCHANGED <<user_queue, auto_queue, now_playing, track_history,
                         next_track_signal, track_queue, track_processes,
                         event_queue, stopped>>
        /\ UserQueueStep
        /\ AutoQueueStep
        /\ writer_pc' # writer_pc => UNCHANGED <<user_queue, auto_queue>>]_vars

\* a skip was made while the first track was piped and the writer has left
\* the piping loop on it; another track waits in the user queue
C40_Witness ==
  /\ writer_pc = "clr" /\ skip_event /\ ~stopped
  /\ now_playing = writer_track
  /\ writer_track \in HistoryIds(track_history)
  /\ user_queue # <<>>
  /\ writer_track \notin Entries(user_queue, 1)

====
